---- MODULE Spec2Model ----
(***************************************************************************)
(* The VirtualEditor of codevideo-virtual-editor: a headless line editor   *)
(* driven by applyAction, with index-aligned history logs.                 *)
(*                                                                         *)
(* The engine modelled here is the class VirtualEditor whose source is in  *)
(* src/__tests__/unit/OtherExamples.ts, lines 329-1116 (action kinds       *)
(* "editor-*", logical 0-indexed caret, physical 1-indexed accessors).     *)
(*                                                                         *)
(* A JavaScript string is a sequence of one-character strings, so that a   *)
(* line can be cut and joined: "ab" is <<"a", "b">>, the line break is the *)
(* character "\n".  An array of lines is a sequence of such sequences.     *)
(* JavaScript indexes from 0, TLA+ from 1: row r of the code is            *)
(* codeLines[r + 1].                                                       *)
(***************************************************************************)
EXTENDS Integers, Sequences, FiniteSets, TLC

\* ------------------------------------------------------------------ bounds

\* applyAction is called at most MaxCalls times on one instance.
MaxCalls == 3

\* The constructor receives at most MaxInitLines initial lines.
MaxInitLines == 2

\* With every kind of repeat count (SpecWide), and with the history queries
\* (SpecQuery), applyAction is called at most MaxShortCalls times.
MaxShortCalls == 2

\* applyAction calls on the editor of src/VirtualEditor.ts in one behaviour
MaxSrcCalls == 3

\* applyAction calls on the two editors together in one behaviour (SpecBoth)
MaxBothCalls == 2

\* ------------------------------------------------------------------ inputs

NL == "\n"

\* The lines the constructor is given are drawn from these.
InitLineChoices == { <<>>, <<"a", "b">> }

\* initialCodeLines of the constructor: every array of 0..MaxInitLines lines.
InitialCodeLines ==
    UNION { [1..n -> InitLineChoices] : n \in 0..MaxInitLines }

\* action.value of a repeatable action: a repeat count, as text.
RepeatValues == { <<"1">>, <<"2">>, <<"0">> }

\* action.value of a repeatable action, the malformed ones included: a count
\* that is positive, zero, negative, or not a number at all.
WideValues == RepeatValues \cup { <<"-", "1">>, <<"x">> }

\* action.value of the kinds that ignore it.
FlagValues == { <<"1">> }

\* action.value of editor-type: text without a line break, with one inside,
\* and with two.
TypeValues == { <<"c">>, <<"c", NL, "d">>, <<NL, "c", NL>> }

\* A kind for which applyAction has no case, and its payload.
UnknownNames == { "author-speak-before" }

UnknownValues == { <<"c">> }

\* Values of the actions given to the editor of src/VirtualEditor.ts: the
\* counts of "enter" include one that is no number; typed and spoken text.
SrcEnterValues == RepeatValues \cup {<<"x">>}

SrcTypeValues == {<<"c">>}

SrcSpeakValues == {<<"h", "i">>}

\* ------------------------------------------------- JavaScript built-ins

Min(a, b) == IF a < b THEN a ELSE b

Max(a, b) == IF a > b THEN a ELSE b

Clamp(x, lo, hi) == IF x < lo THEN lo ELSE IF x > hi THEN hi ELSE x

\* String.prototype.substring(start, end): both arguments are clamped to
\* 0..length and swapped when start > end.
Substring(s, start, end) ==
    LET a == Clamp(start, 0, Len(s))
        b == Clamp(end, 0, Len(s))
    IN  SubSeq(s, Min(a, b) + 1, Max(a, b))

\* String.prototype.substring(start): to the end of the string.
SubstringFrom(s, start) == Substring(s, start, Len(s))

\* Array.prototype.splice(start, deleteCount, ...items) for start >= 0:
\* start is clamped to the length, deleteCount to 0..length - start.
Splice(arr, start, deleteCount, items) ==
    LET s == Min(start, Len(arr))
        d == Clamp(deleteCount, 0, Len(arr) - s)
    IN  SubSeq(arr, 1, s) \o items \o SubSeq(arr, s + d + 1, Len(arr))

\* arr[i] = v for an index inside the array.
SetAt(arr, i, v) == [arr EXCEPT ![i + 1] = v]

\* Array(n).fill(""): n empty strings.
Blanks(n) == [i \in 1..n |-> <<>>]

\* Array.prototype.join("\n") over an array of strings.
RECURSIVE Join(_)
Join(lines) ==
    IF Len(lines) = 0 THEN <<>>
    ELSE IF Len(lines) = 1 THEN lines[1]
    ELSE lines[1] \o <<NL>> \o Join(Tail(lines))

\* String.prototype.split("\n"): always at least one segment.
RECURSIVE Split(_)
Split(s) ==
    IF \A i \in 1..Len(s) : s[i] # NL THEN <<s>>
    ELSE LET k == CHOOSE i \in 1..Len(s) :
                      /\ s[i] = NL
                      /\ \A j \in 1..(i - 1) : s[j] # NL
         IN  <<SubSeq(s, 1, k - 1)>> \o Split(SubSeq(s, k + 1, Len(s)))

DigitValue(c) ==
    CASE c = "0" -> 0 [] c = "1" -> 1 [] c = "2" -> 2 [] c = "3" -> 3
      [] c = "4" -> 4 [] c = "5" -> 5 [] c = "6" -> 6 [] c = "7" -> 7
      [] c = "8" -> 8 [] c = "9" -> 9

IsDigit(c) == c \in {"0", "1", "2", "3", "4", "5", "6", "7", "8", "9"}

RECURSIVE DigitsValue(_, _)
DigitsValue(s, acc) ==
    IF Len(s) = 0 \/ ~IsDigit(s[1]) THEN acc
    ELSE DigitsValue(Tail(s), 10 * acc + DigitValue(s[1]))

\* parseInt(value): an optional sign and the leading digits; NaN when there
\* is no digit.  A number is [nan |-> FALSE, n |-> its value].
NaN == [nan |-> TRUE, n |-> 0]

ParseInt(v) ==
    LET signed == Len(v) > 0 /\ v[1] \in {"-", "+"}
        body   == IF signed THEN Tail(v) ELSE v
        abs    == DigitsValue(body, 0)
    IN  IF Len(body) = 0 \/ ~IsDigit(body[1]) THEN NaN
        ELSE [nan |-> FALSE, n |-> IF signed /\ v[1] = "-" THEN 0 - abs ELSE abs]

\* How often the body of `for (let i = 0; i < numTimes; i++)` runs: i < NaN
\* is false.
Iterations(numTimes) ==
    IF numTimes.nan \/ numTimes.n < 0 THEN 0 ELSE numTimes.n

\* ------------------------------------------------------------------- state

VARIABLES
    codeLines,                      \* the line buffer
    caretRow,                       \* logical caret row (0-indexed)
    caretCol,                       \* logical caret column (0-indexed)
    highlightStartRow,              \* selection anchor row, -1: no selection
    highlightStartCol,              \* selection anchor column, -1: no selection
    currentlyHighlightedCode,       \* cached highlighted text
    isSaved,                        \* the saved flag
    isEditorContextMenuOpen,        \* the context-menu flag
    actionsApplied,                 \* the action log
    editorActionsApplied,           \* the editing-only action log
    codeLinesHistory,               \* the buffer-snapshot log
    caretPositionHistory,           \* the caret log
    highlightStartPositionHistory,  \* the selection-anchor log
    highlightHistory,               \* the highlighted-text log
    calls,                          \* applyAction calls made so far
    aborted,                        \* an applyAction call raised an error
    lastCall,                       \* the last call, its argument and outcome
    srcEditor,                      \* the fields of the VirtualEditor of src/VirtualEditor.ts
    srcRun                          \* its calls so far, and the last one's outcome

live == <<codeLines, caretRow, caretCol, highlightStartRow, highlightStartCol,
          currentlyHighlightedCode, isSaved, isEditorContextMenuOpen>>

logs == <<actionsApplied, editorActionsApplied, codeLinesHistory,
          caretPositionHistory, highlightStartPositionHistory, highlightHistory>>

vars == <<live, logs, calls, aborted, lastCall, srcEditor, srcRun>>

\* ----------------------------------------------- external classification

\* The kinds applyAction has a case for, by what they carry.
RepeatableNames ==
    { "editor-enter", "editor-arrow-down", "editor-arrow-up",
      "editor-arrow-right", "editor-arrow-left", "editor-backspace",
      "editor-space", "editor-tab", "editor-command-left",
      "editor-command-right", "editor-shift+arrow-left",
      "editor-shift+arrow-right", "editor-shift+arrow-down",
      "editor-shift+arrow-up" }

FlagNames ==
    { "editor-show-context-menu", "editor-hide-context-menu", "editor-save" }

\* isRepeatableAction of codevideo-types: the kinds that carry a textual
\* repeat count instead of a payload.
isRepeatableAction(action) == action.name \in RepeatableNames \cup FlagNames

\* isEditorAction of codevideo-types: the editing kinds.
isEditorAction(action) ==
    action.name \in RepeatableNames \cup FlagNames \cup {"editor-type"}

\* ------------------------------------------------- the working state

\* The fields applyAction works on, as one record; threw: an error was
\* raised and the fields are as the statements before it left them.
Fields ==
    [ lines |-> codeLines, row |-> caretRow, col |-> caretCol,
      hRow |-> highlightStartRow, hCol |-> highlightStartCol,
      hl |-> currentlyHighlightedCode, saved |-> isSaved,
      menu |-> isEditorContextMenuOpen, threw |-> FALSE ]

Line(e, r) == e.lines[r + 1]

clearCurrentHighlightedCode(e) ==
    [e EXCEPT !.hRow = -1, !.hCol = -1, !.hl = <<>>]

\* for (let i = 0; i < k; i++) e = Step(e)
RECURSIVE Repeat(_, _, _)
Repeat(Step(_), e, k) == IF k <= 0 THEN e ELSE Repeat(Step, Step(e), k - 1)

\* A variant of calculateHighlightedText: across lines the anchor's column is
\* taken for the first line and the caret's for the last, whatever the
\* direction of the selection.
calculateHighlightedTextForward(e) ==
    IF e.hRow = -1 THEN <<>>
    ELSE IF e.row = e.hRow
    THEN Substring(Line(e, e.row), Min(e.hCol, e.col), Max(e.hCol, e.col))
    ELSE LET startRow == Min(e.hRow, e.row)
             endRow == Max(e.hRow, e.row)
             highlightedLines ==
                 [i \in 1..(endRow - startRow + 1) |->
                     LET row == startRow + i - 1
                     IN  IF row = startRow THEN SubstringFrom(Line(e, row), e.hCol)
                         ELSE IF row = endRow THEN Substring(Line(e, row), 0, e.col)
                         ELSE Line(e, row)]
         IN  Join(highlightedLines)

calculateHighlightedText(e) ==
    IF e.hRow = -1 THEN <<>>
    ELSE IF e.row = e.hRow
    THEN Substring(Line(e, e.row), Min(e.hCol, e.col), Max(e.hCol, e.col))
    ELSE LET startRow == Min(e.hRow, e.row)
             endRow == Max(e.hRow, e.row)
             isForwardSelection == e.hRow < e.row
             startCol == IF isForwardSelection THEN e.hCol ELSE e.col
             endCol == IF isForwardSelection THEN e.col ELSE e.hCol
             highlightedLines ==
                 [i \in 1..(endRow - startRow + 1) |->
                     LET row == startRow + i - 1
                     IN  IF row = startRow THEN SubstringFrom(Line(e, row), startCol)
                         ELSE IF row = endRow THEN Substring(Line(e, row), 0, endCol)
                         ELSE Line(e, row)]
         IN  Join(highlightedLines)

\* ------------------------------------------------ the cases of applyAction

\* case "editor-enter", a selection being active
EnterOverSelection(e, numTimes) ==
    LET isForwardSelection ==
            \/ e.hRow < e.row
            \/ (e.hRow = e.row /\ e.hCol <= e.col)
        startRow == IF isForwardSelection THEN e.hRow ELSE e.row
        endRow == IF isForwardSelection THEN e.row ELSE e.hRow
        startCol == IF isForwardSelection THEN e.hCol ELSE e.col
        endCol == IF isForwardSelection THEN e.col ELSE e.hCol
        beforeText == Substring(Line(e, startRow), 0, startCol)
        afterText == SubstringFrom(Line(e, endRow), endCol)
        replaced == SetAt(e.lines, startRow, beforeText)
        removed == IF endRow > startRow
                   THEN Splice(replaced, startRow + 1, endRow - startRow, <<>>)
                   ELSE replaced
    IN  IF numTimes.nan \/ numTimes.n - 1 < 0
        THEN \* Array(numTimes-1) raises RangeError: Invalid array length
             [e EXCEPT !.lines = removed, !.threw = TRUE]
        ELSE LET newContent == Blanks(numTimes.n - 1) \o <<afterText>>
                 newRow == startRow + numTimes.n
             IN  clearCurrentHighlightedCode(
                     [e EXCEPT !.lines = Splice(removed, newRow, 0, newContent),
                               !.row = newRow, !.col = 0])

\* An editor-enter iteration that opens an empty line below the caret's line
\* and leaves the text after the caret where it was.
EnterStepUnsplit(e) ==
    [e EXCEPT !.lines = Splice(e.lines, e.row + 1, 0, <<<<>>>>),
              !.row = e.row + 1, !.col = 0]

\* one iteration of the editor-enter loop without a selection
EnterStep(e) ==
    LET currentLine == Line(e, e.row)
        beforeCaret == Substring(currentLine, 0, e.col)
        afterCaret == SubstringFrom(currentLine, e.col)
    IN  [e EXCEPT !.lines = Splice(SetAt(e.lines, e.row, beforeCaret),
                                   e.row + 1, 0, <<afterCaret>>),
                  !.row = e.row + 1, !.col = 0]

CaseEditorEnter(e, numTimes) ==
    LET f == [e EXCEPT !.saved = FALSE]
    IN  IF f.hRow # -1 THEN EnterOverSelection(f, numTimes)
        ELSE Repeat(EnterStep, f, Iterations(numTimes))

\* editor-type: the deletion of the selection, from the anchor to the caret
TypeDeleteSelection(e) ==
    LET startRow == e.hRow
        startColumn == e.hCol
        endRow == e.row
        endColumn == e.col
        lines1 ==
            IF startRow = endRow
            THEN SetAt(e.lines, startRow,
                       Substring(Line(e, startRow), 0, startColumn)
                           \o SubstringFrom(Line(e, startRow), endColumn))
            ELSE Splice(SetAt(e.lines, startRow,
                              Substring(Line(e, startRow), 0, startColumn)
                                  \o SubstringFrom(Line(e, endRow), endColumn)),
                        startRow + 1, endRow - startRow, <<>>)
    IN  clearCurrentHighlightedCode(
            [e EXCEPT !.lines = lines1, !.row = startRow, !.col = startColumn])

\* editor-type: for (let j = 1; j < lines.length; j++) over the segments
RECURSIVE TypeSegments(_, _, _, _)
TypeSegments(e, lines, j, restOfLine) ==
    IF j >= Len(lines) THEN e
    ELSE LET row == e.row + 1
             next ==
                 IF j = Len(lines) - 1
                 THEN [e EXCEPT !.row = row,
                                !.lines = Splice(e.lines, row, 0,
                                                 <<lines[j + 1] \o restOfLine>>),
                                !.col = Len(lines[j + 1])]
                 ELSE [e EXCEPT !.row = row,
                                !.lines = Splice(e.lines, row, 0, <<lines[j + 1]>>)]
         IN  TypeSegments(next, lines, j + 1, restOfLine)

\* A variant of TypeStep: the payload is put into the caret's line as it is,
\* line breaks included, and the column advances by its length.
TypeStepUnsplit(e, value) ==
    [e EXCEPT !.lines = SetAt(e.lines, e.row,
                              Substring(Line(e, e.row), 0, e.col)
                                  \o value
                                  \o SubstringFrom(Line(e, e.row), e.col)),
              !.col = e.col + Len(value)]

\* one iteration of the editor-type loop
TypeStep(e, value) ==
    LET lines == Split(value)
    IN  IF Len(lines) = 1
        THEN [e EXCEPT !.lines = SetAt(e.lines, e.row,
                                       Substring(Line(e, e.row), 0, e.col)
                                           \o value
                                           \o SubstringFrom(Line(e, e.row), e.col)),
                       !.col = e.col + Len(value)]
        ELSE LET restOfLine == SubstringFrom(Line(e, e.row), e.col)
                 first == [e EXCEPT !.lines =
                              SetAt(e.lines, e.row,
                                    Substring(Line(e, e.row), 0, e.col) \o lines[1])]
             IN  TypeSegments(first, lines, 1, restOfLine)

CaseEditorType(e, value, numTimes) ==
    LET f == [e EXCEPT !.saved = FALSE]
        g == IF f.hRow # -1 THEN TypeDeleteSelection(f) ELSE f
    IN  Repeat(LAMBDA x : TypeStep(x, value), g, Iterations(numTimes))

\* A variant of ArrowDownStep: the column is brought into the new line.
ArrowDownStepClamped(e) ==
    IF e.row < Len(e.lines) - 1
    THEN [e EXCEPT !.row = e.row + 1,
                   !.col = IF e.col > Len(Line(e, e.row + 1))
                           THEN Len(Line(e, e.row + 1)) ELSE e.col]
    ELSE e

ArrowDownStep(e) ==
    IF e.row < Len(e.lines) - 1 THEN [e EXCEPT !.row = e.row + 1] ELSE e

CaseEditorArrowDown(e, numTimes) ==
    clearCurrentHighlightedCode(Repeat(ArrowDownStep, e, Iterations(numTimes)))

\* A variant of ArrowUpStep: the column is brought into the new line.
ArrowUpStepClamped(e) ==
    IF e.row > 0
    THEN [e EXCEPT !.row = e.row - 1,
                   !.col = IF e.col > Len(Line(e, e.row - 1))
                           THEN Len(Line(e, e.row - 1)) ELSE e.col]
    ELSE e

ArrowUpStep(e) ==
    IF e.row > 0 THEN [e EXCEPT !.row = e.row - 1] ELSE e

CaseEditorArrowUp(e, numTimes) ==
    clearCurrentHighlightedCode(Repeat(ArrowUpStep, e, Iterations(numTimes)))

\* currentLineLength is the length of the caret's line when applyAction began
ArrowRightStep(e, currentLineLength) ==
    IF e.col < currentLineLength THEN [e EXCEPT !.col = e.col + 1]
    ELSE IF e.row < Len(e.lines) - 1 THEN [e EXCEPT !.row = e.row + 1, !.col = 0]
    ELSE e

CaseEditorArrowRight(e, numTimes, currentLineLength) ==
    clearCurrentHighlightedCode(
        Repeat(LAMBDA x : ArrowRightStep(x, currentLineLength), e,
               Iterations(numTimes)))

ArrowLeftStep(e) ==
    IF e.col > 0 THEN [e EXCEPT !.col = e.col - 1]
    ELSE IF e.row > 0
    THEN [e EXCEPT !.row = e.row - 1, !.col = Len(Line(e, e.row - 1)) - 1]
    ELSE e

CaseEditorArrowLeft(e, numTimes) ==
    clearCurrentHighlightedCode(Repeat(ArrowLeftStep, e, Iterations(numTimes)))

\* A selection deletion that takes the anchor for the start and the caret
\* for the end, whatever their order.
BackspaceSelectionUnordered(e) ==
    LET joined == Substring(Line(e, e.hRow), 0, e.hCol)
                      \o SubstringFrom(Line(e, e.row), e.col)
    IN  clearCurrentHighlightedCode(
            [e EXCEPT !.lines = IF e.hRow = e.row
                                THEN SetAt(e.lines, e.hRow, joined)
                                ELSE Splice(SetAt(e.lines, e.hRow, joined),
                                            e.hRow + 1, e.row - e.hRow, <<>>),
                      !.row = e.hRow, !.col = e.hCol])

\* editor-backspace, a selection being active
BackspaceSelection(e) ==
    LET startRow == Min(e.hRow, e.row)
        endRow == Max(e.hRow, e.row)
        isForwardSelection == e.hRow < e.row
        startCol == IF isForwardSelection THEN e.hCol ELSE e.col
        endCol == IF isForwardSelection THEN e.col ELSE e.hCol
    IN  IF startRow = endRow
        THEN LET start == Min(startCol, endCol)
                 end == Max(startCol, endCol)
             IN  clearCurrentHighlightedCode(
                     [e EXCEPT !.lines = SetAt(e.lines, startRow,
                                               Substring(Line(e, startRow), 0, start)
                                                   \o SubstringFrom(Line(e, startRow), end)),
                               !.row = startRow, !.col = start])
        ELSE LET firstLineStart == Substring(Line(e, startRow), 0, startCol)
                 lastLineEnd == SubstringFrom(Line(e, endRow), endCol)
             IN  clearCurrentHighlightedCode(
                     [e EXCEPT !.lines = Splice(SetAt(e.lines, startRow,
                                                      firstLineStart \o lastLineEnd),
                                                startRow + 1, endRow - startRow, <<>>),
                               !.row = startRow, !.col = startCol])

\* A variant of BackspaceStep: in column 0 the caret goes to the end of the
\* previous line and the two lines are not merged.
BackspaceStepUnmerged(e) ==
    IF e.col > 0
    THEN [e EXCEPT !.lines = SetAt(e.lines, e.row,
                                   Substring(Line(e, e.row), 0, e.col - 1)
                                       \o SubstringFrom(Line(e, e.row), e.col)),
                   !.col = e.col - 1]
    ELSE IF e.row > 0
    THEN [e EXCEPT !.row = e.row - 1, !.col = Len(Line(e, e.row - 1))]
    ELSE e

\* one iteration of the editor-backspace loop without a selection
BackspaceStep(e) ==
    IF e.col > 0
    THEN [e EXCEPT !.lines = SetAt(e.lines, e.row,
                                   Substring(Line(e, e.row), 0, e.col - 1)
                                       \o SubstringFrom(Line(e, e.row), e.col)),
                   !.col = e.col - 1]
    ELSE IF e.row > 0
    THEN LET previousLineLength == Len(Line(e, e.row - 1))
         IN  [e EXCEPT !.lines = Splice(SetAt(e.lines, e.row - 1,
                                              Line(e, e.row - 1) \o Line(e, e.row)),
                                        e.row, 1, <<>>),
                       !.row = e.row - 1, !.col = previousLineLength]
    ELSE e

CaseEditorBackspace(e, numTimes) ==
    LET f == [e EXCEPT !.saved = FALSE]
    IN  IF f.hRow # -1 THEN BackspaceSelection(f)
        ELSE Repeat(BackspaceStep, f, Iterations(numTimes))

\* editor-space: the deletion of the selection
SpaceDeleteSelection(e) ==
    LET startRow == Min(e.hRow, e.row)
        endRow == Max(e.hRow, e.row)
        startCol == IF startRow = e.hRow THEN e.hCol ELSE e.col
        endCol == IF endRow = e.hRow THEN e.hCol ELSE e.col
    IN  IF startRow = endRow
        THEN LET start == Min(startCol, endCol)
                 end == Max(startCol, endCol)
             IN  clearCurrentHighlightedCode(
                     [e EXCEPT !.lines = SetAt(e.lines, startRow,
                                               Substring(Line(e, startRow), 0, start)
                                                   \o SubstringFrom(Line(e, startRow), end)),
                               !.row = startRow, !.col = start])
        ELSE LET firstLineStart == Substring(Line(e, startRow), 0, startCol)
                 lastLineEnd == SubstringFrom(Line(e, endRow), endCol)
             IN  clearCurrentHighlightedCode(
                     [e EXCEPT !.lines = Splice(SetAt(e.lines, startRow,
                                                      firstLineStart \o lastLineEnd),
                                                startRow + 1, endRow - startRow, <<>>),
                               !.row = startRow, !.col = startCol])

\* one iteration of the editor-space and editor-tab loops
InsertCharStep(e, ch) ==
    [e EXCEPT !.lines = SetAt(e.lines, e.row,
                              Substring(Line(e, e.row), 0, e.col)
                                  \o <<ch>>
                                  \o SubstringFrom(Line(e, e.row), e.col)),
              !.col = e.col + 1]

CaseEditorSpace(e, numTimes) ==
    LET f == [e EXCEPT !.saved = FALSE]
        g == IF f.hRow # -1 THEN SpaceDeleteSelection(f) ELSE f
    IN  Repeat(LAMBDA x : InsertCharStep(x, " "), g, Iterations(numTimes))

CaseEditorTab(e, numTimes) ==
    Repeat(LAMBDA x : InsertCharStep(x, "\t"), e, Iterations(numTimes))

CommandLeftStep(e) ==
    IF e.col > 0 THEN [e EXCEPT !.col = 0] ELSE e

\* A variant of CaseEditorCommandLeft: the selection is cleared only when
\* the caret moved.
CaseEditorCommandLeftMovedOnly(e, numTimes) ==
    IF Repeat(CommandLeftStep, e, Iterations(numTimes)).col = e.col THEN e
    ELSE clearCurrentHighlightedCode(Repeat(CommandLeftStep, e, Iterations(numTimes)))

CaseEditorCommandLeft(e, numTimes) ==
    clearCurrentHighlightedCode(Repeat(CommandLeftStep, e, Iterations(numTimes)))

CommandRightStep(e) ==
    IF e.col < Len(Line(e, e.row)) THEN [e EXCEPT !.col = Len(Line(e, e.row))]
    ELSE e

CaseEditorCommandRight(e, numTimes) ==
    clearCurrentHighlightedCode(Repeat(CommandRightStep, e, Iterations(numTimes)))

\* if (this.highlightStartRow === -1) the anchor is set to the caret
\* A variant of StartHighlight: the anchor is set to the caret every time.
StartHighlightAlways(e) == [e EXCEPT !.hRow = e.row, !.hCol = e.col]

StartHighlight(e) ==
    IF e.hRow = -1 THEN [e EXCEPT !.hRow = e.row, !.hCol = e.col] ELSE e

WithHighlightedText(e) == [e EXCEPT !.hl = calculateHighlightedText(e)]

ShiftArrowLeftStep(e) ==
    IF e.col > 0 THEN [e EXCEPT !.col = e.col - 1]
    ELSE IF e.row > 0
    THEN [e EXCEPT !.row = e.row - 1, !.col = Len(Line(e, e.row - 1))]
    ELSE e

CaseEditorShiftArrowLeft(e, numTimes) ==
    WithHighlightedText(
        Repeat(ShiftArrowLeftStep, StartHighlight(e), Iterations(numTimes)))

ShiftArrowRightStep(e) ==
    IF e.col < Len(Line(e, e.row)) THEN [e EXCEPT !.col = e.col + 1]
    ELSE IF e.row < Len(e.lines) - 1 THEN [e EXCEPT !.row = e.row + 1, !.col = 0]
    ELSE e

CaseEditorShiftArrowRight(e, numTimes) ==
    WithHighlightedText(
        Repeat(ShiftArrowRightStep, StartHighlight(e), Iterations(numTimes)))

ShiftArrowDownStep(e) ==
    IF e.row < Len(e.lines) - 1
    THEN LET nextLineLength == Len(Line(e, e.row + 1))
         IN  IF e.col < nextLineLength THEN [e EXCEPT !.row = e.row + 1]
             ELSE [e EXCEPT !.row = e.row + 1, !.col = nextLineLength]
    ELSE e

CaseEditorShiftArrowDown(e, numTimes) ==
    WithHighlightedText(
        Repeat(ShiftArrowDownStep, StartHighlight(e), Iterations(numTimes)))

\* A variant of ShiftArrowUpStep: the column is kept, as arrow-up keeps it.
ShiftArrowUpStepUnclamped(e) ==
    IF e.row > 0 THEN [e EXCEPT !.row = e.row - 1] ELSE e

ShiftArrowUpStep(e) ==
    IF e.row > 0
    THEN LET previousLineLength == Len(Line(e, e.row - 1))
         IN  IF e.col < previousLineLength THEN [e EXCEPT !.row = e.row - 1]
             ELSE [e EXCEPT !.row = e.row - 1, !.col = previousLineLength]
    ELSE e

CaseEditorShiftArrowUp(e, numTimes) ==
    WithHighlightedText(
        Repeat(ShiftArrowUpStep, StartHighlight(e), Iterations(numTimes)))

CaseEditorShowContextMenu(e) == [e EXCEPT !.menu = TRUE]

\* A variant of CaseEditorHideContextMenu: the flag is toggled.
CaseEditorHideContextMenuToggling(e) == [e EXCEPT !.menu = ~e.menu]

CaseEditorHideContextMenu(e) == [e EXCEPT !.menu = FALSE]

\* A variant of CaseEditorSave: saving ends the buffer with an empty line.
CaseEditorSaveWithFinalLine(e) ==
    [e EXCEPT !.saved = TRUE,
              !.lines = IF e.lines[Len(e.lines)] = <<>> THEN e.lines
                        ELSE Append(e.lines, <<>>)]

CaseEditorSave(e) == [e EXCEPT !.saved = TRUE]

\* A variant of CaseDefault: the selection is cleared, as the movement cases
\* do.
CaseDefaultClearing(e) == clearCurrentHighlightedCode(e)

\* default: the kind is not recognized
CaseDefault(e) == e

\* the switch of applyAction over action.name
Switch(action, e, numTimes, currentLineLength) ==
    CASE action.name = "editor-show-context-menu" -> CaseEditorShowContextMenu(e)
      [] action.name = "editor-hide-context-menu" -> CaseEditorHideContextMenu(e)
      [] action.name = "editor-enter" -> CaseEditorEnter(e, numTimes)
      [] action.name = "editor-type" -> CaseEditorType(e, action.value, numTimes)
      [] action.name = "editor-arrow-down" -> CaseEditorArrowDown(e, numTimes)
      [] action.name = "editor-arrow-up" -> CaseEditorArrowUp(e, numTimes)
      [] action.name = "editor-arrow-right" ->
             CaseEditorArrowRight(e, numTimes, currentLineLength)
      [] action.name = "editor-arrow-left" -> CaseEditorArrowLeft(e, numTimes)
      [] action.name = "editor-backspace" -> CaseEditorBackspace(e, numTimes)
      [] action.name = "editor-space" -> CaseEditorSpace(e, numTimes)
      [] action.name = "editor-tab" -> CaseEditorTab(e, numTimes)
      [] action.name = "editor-command-left" -> CaseEditorCommandLeft(e, numTimes)
      [] action.name = "editor-command-right" -> CaseEditorCommandRight(e, numTimes)
      [] action.name = "editor-shift+arrow-left" -> CaseEditorShiftArrowLeft(e, numTimes)
      [] action.name = "editor-shift+arrow-right" -> CaseEditorShiftArrowRight(e, numTimes)
      [] action.name = "editor-shift+arrow-down" -> CaseEditorShiftArrowDown(e, numTimes)
      [] action.name = "editor-shift+arrow-up" -> CaseEditorShiftArrowUp(e, numTimes)
      [] action.name = "editor-save" -> CaseEditorSave(e)
      [] OTHER -> CaseDefault(e)

\* ------------------------------------------------------------ the history

\* A variant of Slice: no copy is made, the entry is the live array.
SliceShared(lines) == [own |-> FALSE, at |-> lines]

\* An entry of codeLinesHistory is an array of its own (own: what it held
\* when it was made) or the live array codeLines itself.
\* this.codeLines.slice(): a new array with the lines of this moment.
Slice(lines) == [own |-> TRUE, at |-> lines]

\* The lines an entry of codeLinesHistory shows when it is read.
EntryLines(entry) == IF entry.own THEN entry.at ELSE codeLines

PushCodeLines(history, lines) == Append(history, Slice(lines))

PushCaretPosition(history, e) == Append(history, [row |-> e.row, col |-> e.col])

PushHighlightStartPosition(history, e) ==
    Append(history, [row |-> IF e.hRow = -1 THEN -1 ELSE e.hRow,
                     col |-> IF e.hCol = -1 THEN -1 ELSE e.hCol])

PushHighlight(history, e) ==
    Append(history, IF e.hl = <<>> THEN << <<>> >> ELSE <<e.hl>>)

PushAction(log, action) == Append(log, action)

PushEditorAction(log, action) ==
    IF isEditorAction(action) THEN Append(log, action) ELSE log

getCode(lines) == Join(lines)

\* ------------------------------------- the editor of src/VirtualEditor.ts
\*
\* src/VirtualEditor.ts holds a second class VirtualEditor, with the kinds
\* "enter", "type-editor", "arrow-*", ..., "speak-*", its own logs of code
\* and speak actions and a caption log.  Its fields are the fields of the
\* record srcEditor; its cases work on the same working record as the cases
\* above, and where a case has the same statements as the case above it
\* uses the same steps.

SrcRepeatableNames ==
    { "enter", "arrow-down", "arrow-up", "arrow-right", "arrow-left",
      "backspace", "space", "tab", "command-left", "command-right",
      "shift+arrow-right", "shift+arrow-left" }

SrcSpeakNames == { "speak-before", "speak-after", "speak-during" }

\* isRepeatableAction of codevideo-types, for the kinds of this class
SrcIsRepeatableAction(action) == action.name \in SrcRepeatableNames

\* isCodeAction of codevideo-types: the kinds that act on the code
isCodeAction(action) == action.name \in SrcRepeatableNames \cup {"type-editor"}

\* isSpeakAction of codevideo-types: the three speak kinds
isSpeakAction(action) == action.name \in SrcSpeakNames

\* The fields its applyAction works on, as a working record.
SrcFields ==
    [ lines |-> srcEditor.codeLines, row |-> srcEditor.caretRow,
      col |-> srcEditor.caretColumn,
      hRow |-> srcEditor.highlightStartRow,
      hCol |-> srcEditor.highlightStartColumn,
      hl |-> srcEditor.currentlyHighlightedCode,
      saved |-> FALSE, menu |-> FALSE, threw |-> FALSE ]

\* case "enter", a selection being active
SrcEnterOverSelection(e, numTimes) ==
    LET isForwardSelection ==
            \/ e.hRow < e.row
            \/ (e.hRow = e.row /\ e.hCol <= e.col)
        startRow == IF isForwardSelection THEN e.hRow ELSE e.row
        endRow == IF isForwardSelection THEN e.row ELSE e.hRow
        startCol == IF isForwardSelection THEN e.hCol ELSE e.col
        endCol == IF isForwardSelection THEN e.col ELSE e.hCol
        beforeText == Substring(Line(e, startRow), 0, startCol)
        afterText == SubstringFrom(Line(e, endRow), endCol)
        replaced == SetAt(e.lines, startRow, beforeText)
        removed == IF endRow > startRow
                   THEN Splice(replaced, startRow + 1, endRow - startRow, <<>>)
                   ELSE replaced
    IN  IF numTimes.nan \/ numTimes.n < 0
        THEN \* Array(numTimes) raises RangeError: Invalid array length
             [e EXCEPT !.lines = removed, !.threw = TRUE]
        ELSE LET newLines == Blanks(numTimes.n)
                                 \o (IF afterText # <<>> THEN <<afterText>>
                                     ELSE <<>>)
                 newRow == IF afterText # <<>> THEN startRow + numTimes.n + 1
                           ELSE startRow + numTimes.n
             IN  clearCurrentHighlightedCode(
                     [e EXCEPT !.lines = Splice(removed, startRow + 1, 0, newLines),
                               !.row = newRow, !.col = 0])

SrcCaseEnter(e, numTimes) ==
    IF e.hRow # -1 THEN SrcEnterOverSelection(e, numTimes)
    ELSE Repeat(EnterStep, e, Iterations(numTimes))

\* one iteration of the type-editor loop: the value goes into the caret's
\* line as it is
SrcTypeStep(e, value) ==
    [e EXCEPT !.lines = SetAt(e.lines, e.row,
                              Substring(Line(e, e.row), 0, e.col)
                                  \o value
                                  \o SubstringFrom(Line(e, e.row), e.col)),
              !.col = e.col + Len(value)]

SrcCaseTypeEditor(e, value, numTimes) ==
    LET g == IF e.hRow # -1 THEN TypeDeleteSelection(e) ELSE e
    IN  Repeat(LAMBDA x : SrcTypeStep(x, value), g, Iterations(numTimes))

SrcCaseArrowDown(e, numTimes) ==
    clearCurrentHighlightedCode(Repeat(ArrowDownStep, e, Iterations(numTimes)))

SrcCaseArrowUp(e, numTimes) ==
    clearCurrentHighlightedCode(Repeat(ArrowUpStep, e, Iterations(numTimes)))

\* currentLineLength is the length of the caret's line when applyAction began
SrcArrowRightStep(e, currentLineLength) ==
    IF e.col < currentLineLength - 1 THEN [e EXCEPT !.col = e.col + 1]
    ELSE IF e.row < Len(e.lines) - 1 THEN [e EXCEPT !.row = e.row + 1, !.col = 0]
    ELSE e

SrcCaseArrowRight(e, numTimes, currentLineLength) ==
    clearCurrentHighlightedCode(
        Repeat(LAMBDA x : SrcArrowRightStep(x, currentLineLength), e,
               Iterations(numTimes)))

SrcCaseArrowLeft(e, numTimes) ==
    clearCurrentHighlightedCode(Repeat(ArrowLeftStep, e, Iterations(numTimes)))

SrcCaseBackspace(e, numTimes) ==
    IF e.hRow # -1 THEN BackspaceSelection(e)
    ELSE Repeat(BackspaceStep, e, Iterations(numTimes))

SrcCaseSpace(e, numTimes) ==
    LET g == IF e.hRow # -1 THEN SpaceDeleteSelection(e) ELSE e
    IN  Repeat(LAMBDA x : InsertCharStep(x, " "), g, Iterations(numTimes))

\* A variant of SrcCaseTab: the selection is cleared, as the movement cases
\* clear it.
SrcCaseTabClearing(e, numTimes) ==
    clearCurrentHighlightedCode(
        Repeat(LAMBDA x : InsertCharStep(x, "\t"), e, Iterations(numTimes)))

SrcCaseTab(e, numTimes) ==
    Repeat(LAMBDA x : InsertCharStep(x, "\t"), e, Iterations(numTimes))

SrcCaseCommandLeft(e, numTimes) ==
    clearCurrentHighlightedCode(Repeat(CommandLeftStep, e, Iterations(numTimes)))

SrcCaseCommandRight(e, numTimes) ==
    clearCurrentHighlightedCode(Repeat(CommandRightStep, e, Iterations(numTimes)))

SrcCaseShiftArrowRight(e, numTimes) ==
    WithHighlightedText(
        Repeat(ShiftArrowRightStep, StartHighlight(e), Iterations(numTimes)))

SrcCaseShiftArrowLeft(e, numTimes) ==
    WithHighlightedText(
        Repeat(ShiftArrowLeftStep, StartHighlight(e), Iterations(numTimes)))

\* A variant of SrcCaseSpeak: a speak action clears the selection anchor.
SrcCaseSpeakClearing(e) == clearCurrentHighlightedCode(e)

\* case "speak-before", "speak-after", "speak-during": nothing to do
SrcCaseSpeak(e) == e

SrcCaseDefault(e) == e

SrcSwitch(action, e, numTimes, currentLineLength) ==
    CASE action.name = "enter" -> SrcCaseEnter(e, numTimes)
      [] action.name = "type-editor" -> SrcCaseTypeEditor(e, action.value, numTimes)
      [] action.name = "arrow-down" -> SrcCaseArrowDown(e, numTimes)
      [] action.name = "arrow-up" -> SrcCaseArrowUp(e, numTimes)
      [] action.name = "arrow-right" ->
             SrcCaseArrowRight(e, numTimes, currentLineLength)
      [] action.name = "arrow-left" -> SrcCaseArrowLeft(e, numTimes)
      [] action.name = "backspace" -> SrcCaseBackspace(e, numTimes)
      [] action.name = "space" -> SrcCaseSpace(e, numTimes)
      [] action.name = "tab" -> SrcCaseTab(e, numTimes)
      [] action.name = "command-left" -> SrcCaseCommandLeft(e, numTimes)
      [] action.name = "command-right" -> SrcCaseCommandRight(e, numTimes)
      [] action.name = "shift+arrow-right" -> SrcCaseShiftArrowRight(e, numTimes)
      [] action.name = "shift+arrow-left" -> SrcCaseShiftArrowLeft(e, numTimes)
      [] action.name \in SrcSpeakNames -> SrcCaseSpeak(e)
      [] OTHER -> SrcCaseDefault(e)

\* The value in its first log entries: no caption.
NoCaption == [speechType |-> "", speechValue |-> <<>>]

\* A variant of SrcPushSpeakAction: every action goes into the speak log.
SrcPushSpeakActionAlways(log, action) == Append(log, action)

\* if (isSpeakAction(action)) this.speakActionsApplied.push(action)
SrcPushSpeakAction(log, action) ==
    IF isSpeakAction(action) THEN Append(log, action) ELSE log

\* if (isCodeAction(action)) this.codeActionsApplied.push(action)
SrcPushCodeAction(log, action) ==
    IF isCodeAction(action) THEN Append(log, action) ELSE log

\* this.speechCaptionHistory.push(...): the caption of a speak action, an
\* empty caption for any other
SrcPushSpeechCaption(history, action) ==
    IF isSpeakAction(action)
    THEN Append(history, [speechType |-> action.name, speechValue |-> action.value])
    ELSE Append(history, NoCaption)

\* The fields after the statements of applyAction up to an error: the live
\* fields are as the working record e has them, the logs as they were.
SrcLive(ed, e) ==
    [ed EXCEPT !.codeLines = e.lines, !.caretRow = e.row, !.caretColumn = e.col,
               !.highlightStartRow = e.hRow, !.highlightStartColumn = e.hCol,
               !.currentlyHighlightedCode = e.hl]

\* The fields after applyAction(action) returned: the live fields, and one
\* more entry in every log.
SrcRecord(ed, e, action) ==
    [SrcLive(ed, e) EXCEPT
        !.actionsApplied = Append(@, action),
        !.codeActionsApplied = SrcPushCodeAction(@, action),
        !.speakActionsApplied = SrcPushSpeakAction(@, action),
        !.speechCaptionHistory = SrcPushSpeechCaption(@, action),
        !.codeLinesHistory = Append(@, e.lines),
        !.caretPositionHistory = Append(@, [row |-> e.row, column |-> e.col]),
        !.highlightStartPositionHistory =
            Append(@, [row |-> IF e.hRow = -1 THEN -1 ELSE e.hRow,
                       column |-> IF e.hCol = -1 THEN -1 ELSE e.hCol]),
        !.highlightHistory = Append(@, IF e.hl = <<>> THEN << <<>> >> ELSE <<e.hl>>)]

SrcSeedAction(initialCodeLines) ==
    [name |-> "type-editor", value |-> Join(initialCodeLines)]

\* The fields after new VirtualEditor(initialCodeLines): the initialisers of
\* the fields, then the constructor.
SrcConstruct(given) ==
    LET initialCodeLines == IF Len(given) = 0 THEN << <<>> >> ELSE given
    IN  [ caretRow |-> 0, caretColumn |-> 0,
          highlightStartRow |-> 0, highlightStartColumn |-> 0,
          codeLines |-> initialCodeLines,
          actionsApplied |-> <<SrcSeedAction(initialCodeLines)>>,
          codeActionsApplied |-> <<SrcSeedAction(initialCodeLines)>>,
          speakActionsApplied |-> <<>>,
          codeLinesHistory |-> <<initialCodeLines>>,
          speechCaptionHistory |-> <<NoCaption>>,
          caretPositionHistory |-> <<[row |-> 0, column |-> 0]>>,
          highlightStartPositionHistory |-> <<[row |-> -1, column |-> -1]>>,
          currentlyHighlightedCode |-> <<>>,
          highlightHistory |-> << << <<>> >> >> ]

\* --------------------------------------------------------- construction

\* A variant of NormalizeInitialCodeLines: the empty array is kept.
NormalizeInitialCodeLinesSkipped(initialCodeLines) == initialCodeLines

\* if (initialCodeLines.length === 0) initialCodeLines = [""]
NormalizeInitialCodeLines(initialCodeLines) ==
    IF Len(initialCodeLines) = 0 THEN << <<>> >> ELSE initialCodeLines

SeedAction(initialCodeLines) ==
    [name |-> "editor-type",
     value |-> IF Len(initialCodeLines) = 1 THEN initialCodeLines[1]
               ELSE Join(initialCodeLines)]

\* new VirtualEditor(initialCodeLines); the actions of the second argument
\* are applied by applyAction, one after the other, like any later ones.
Init ==
    \E given \in InitialCodeLines :
        LET initialCodeLines == NormalizeInitialCodeLines(given)
        IN  /\ codeLines = initialCodeLines
            /\ caretRow = 0
            /\ caretCol = 0
            /\ highlightStartRow = -1
            /\ highlightStartCol = -1
            /\ currentlyHighlightedCode = <<>>
            /\ isSaved = FALSE
            /\ isEditorContextMenuOpen = FALSE
            /\ actionsApplied = <<SeedAction(initialCodeLines)>>
            /\ editorActionsApplied = <<SeedAction(initialCodeLines)>>
            /\ codeLinesHistory = <<Slice(initialCodeLines)>>
            /\ highlightHistory = << << <<>> >> >>
            /\ caretPositionHistory = <<[row |-> 0, col |-> 0]>>
            /\ highlightStartPositionHistory = <<[row |-> -1, col |-> -1]>>
            /\ calls = 0
            /\ aborted = FALSE
            /\ lastCall = [op |-> "constructor", arg |-> <<>>,
                           threw |-> FALSE, value |-> <<>>]
            /\ srcEditor = SrcConstruct(given)
            /\ srcRun = [calls |-> 0, aborted |-> FALSE,
                         lastCall |-> [op |-> "constructor", arg |-> <<>>,
                                       threw |-> FALSE, value |-> <<>>]]

\* ----------------------------------------------------------- applyAction

One == [nan |-> FALSE, n |-> 1]

NumTimes(action) ==
    IF isRepeatableAction(action) THEN ParseInt(action.value) ELSE One

CurrentLineLength ==
    IF caretRow >= 0 /\ caretRow < Len(codeLines)
    THEN Len(codeLines[caretRow + 1]) ELSE 0

\* The fields after the switch of applyAction(action).
Effect(action) ==
    Switch(action, [Fields EXCEPT !.hl = <<>>], NumTimes(action),
           CurrentLineLength)

\* The fields after the switch of applyAction(action), the call beginning
\* with the fields e.
EffectOn(e, action) ==
    Switch(action, [e EXCEPT !.hl = <<>>], NumTimes(action),
           IF e.row >= 0 /\ e.row < Len(e.lines) THEN Len(Line(e, e.row)) ELSE 0)

\* applyAction(action) called k times in a row, up to a call that raises
RECURSIVE ApplyTimes(_, _, _)
ApplyTimes(e, action, k) ==
    IF k <= 0 \/ e.threw THEN e
    ELSE ApplyTimes(EffectOn(e, action), action, k - 1)

applyAction(action) ==
    /\ ~aborted
    /\ calls < MaxCalls
    /\ \E e \in {Effect(action)} :
           /\ codeLines' = e.lines
           /\ caretRow' = e.row
           /\ caretCol' = e.col
           /\ highlightStartRow' = e.hRow
           /\ highlightStartCol' = e.hCol
           /\ currentlyHighlightedCode' = e.hl
           /\ isSaved' = e.saved
           /\ isEditorContextMenuOpen' = e.menu
           /\ calls' = calls + 1
           /\ aborted' = e.threw
           /\ UNCHANGED <<srcEditor, srcRun>>
           /\ IF e.threw
              THEN /\ UNCHANGED logs
                   /\ lastCall' = [op |-> "applyAction", arg |-> action,
                                   threw |-> TRUE, value |-> <<>>]
              ELSE /\ actionsApplied' = PushAction(actionsApplied, action)
                   /\ editorActionsApplied' =
                          PushEditorAction(editorActionsApplied, action)
                   /\ codeLinesHistory' = PushCodeLines(codeLinesHistory, e.lines)
                   /\ caretPositionHistory' =
                          PushCaretPosition(caretPositionHistory, e)
                   /\ highlightStartPositionHistory' =
                          PushHighlightStartPosition(highlightStartPositionHistory, e)
                   /\ highlightHistory' = PushHighlight(highlightHistory, e)
                   /\ lastCall' = [op |-> "applyAction", arg |-> action,
                                   threw |-> FALSE, value |-> getCode(e.lines)]

Repeatable(name) ==
    \E v \in RepeatValues : applyAction([name |-> name, value |-> v])

Flag(name) ==
    \E v \in FlagValues : applyAction([name |-> name, value |-> v])

EditorShowContextMenu == Flag("editor-show-context-menu")

EditorHideContextMenu == Flag("editor-hide-context-menu")

EditorEnter == Repeatable("editor-enter")

EditorType ==
    \E v \in TypeValues : applyAction([name |-> "editor-type", value |-> v])

EditorArrowDown == Repeatable("editor-arrow-down")

EditorArrowUp == Repeatable("editor-arrow-up")

EditorArrowRight == Repeatable("editor-arrow-right")

EditorArrowLeft == Repeatable("editor-arrow-left")

EditorBackspace == Repeatable("editor-backspace")

EditorSpace == Repeatable("editor-space")

EditorTab == Repeatable("editor-tab")

EditorCommandLeft == Repeatable("editor-command-left")

EditorCommandRight == Repeatable("editor-command-right")

EditorShiftArrowLeft == Repeatable("editor-shift+arrow-left")

EditorShiftArrowRight == Repeatable("editor-shift+arrow-right")

EditorShiftArrowDown == Repeatable("editor-shift+arrow-down")

EditorShiftArrowUp == Repeatable("editor-shift+arrow-up")

EditorSave == Flag("editor-save")

Unrecognized ==
    \E n \in UnknownNames, v \in UnknownValues :
        applyAction([name |-> n, value |-> v])

Next ==
    \/ EditorShowContextMenu
    \/ EditorHideContextMenu
    \/ EditorEnter
    \/ EditorType
    \/ EditorArrowDown
    \/ EditorArrowUp
    \/ EditorArrowRight
    \/ EditorArrowLeft
    \/ EditorBackspace
    \/ EditorSpace
    \/ EditorTab
    \/ EditorCommandLeft
    \/ EditorCommandRight
    \/ EditorShiftArrowLeft
    \/ EditorShiftArrowRight
    \/ EditorShiftArrowDown
    \/ EditorShiftArrowUp
    \/ EditorSave
    \/ Unrecognized

Spec == Init /\ [][Next]_vars

\* Every kind with every kind of repeat count, the malformed ones included.
WideActions ==
    [name : RepeatableNames, value : WideValues]
        \cup [name : FlagNames, value : WideValues]
        \cup [name : {"editor-type"}, value : TypeValues]
        \cup [name : UnknownNames, value : UnknownValues]

ApplyAnyAction ==
    /\ calls < MaxShortCalls
    /\ \E action \in WideActions : applyAction(action)

NextWide == ApplyAnyAction

SpecWide == Init /\ [][NextWide]_vars

\* ------------------------------------------------------- history queries

\* A variant of CodeAtActionIndex: the index is clamped to the recorded
\* entries instead of being refused.
CodeAtActionIndexClamped(history, actionIndex) ==
    [threw |-> FALSE,
     value |-> Join(history[Clamp(actionIndex, 0, Len(history) - 1) + 1].at)]

\* The outcome of getCodeAtActionIndex(actionIndex): the guard raises
\* "Action index out of bounds"; below 0 the entry is undefined and .join
\* raises a TypeError.
CodeAtActionIndex(history, actionIndex) ==
    IF actionIndex > Len(history) - 1 THEN [threw |-> TRUE, value |-> <<>>]
    ELSE IF actionIndex < 0 THEN [threw |-> TRUE, value |-> <<>>]
    ELSE [threw |-> FALSE, value |-> Join(EntryLines(history[actionIndex + 1]))]

\* The outcome of getHighlightedCodeAtActionIndex(actionIndex).
HighlightedCodeAtActionIndex(history, actionIndex) ==
    IF actionIndex > Len(history) - 1 THEN [threw |-> TRUE, value |-> <<>>]
    ELSE IF actionIndex < 0 THEN [threw |-> TRUE, value |-> <<>>]
    ELSE [threw |-> FALSE, value |-> Join(history[actionIndex + 1])]

\* The indexes the queries are called with: from below 0 to past the end.
QueryIndexes == (-1)..(MaxShortCalls + 2)

getCodeAtActionIndex ==
    \E actionIndex \in QueryIndexes :
        LET r == CodeAtActionIndex(codeLinesHistory, actionIndex)
        IN  /\ lastCall' = [op |-> "getCodeAtActionIndex", arg |-> actionIndex,
                            threw |-> r.threw, value |-> r.value]
            /\ UNCHANGED <<live, logs, calls, aborted, srcEditor, srcRun>>

getHighlightedCodeAtActionIndex ==
    \E actionIndex \in QueryIndexes :
        LET r == HighlightedCodeAtActionIndex(highlightHistory, actionIndex)
        IN  /\ lastCall' = [op |-> "getHighlightedCodeAtActionIndex",
                            arg |-> actionIndex,
                            threw |-> r.threw, value |-> r.value]
            /\ UNCHANGED <<live, logs, calls, aborted, srcEditor, srcRun>>

ApplyThenQuery == calls < MaxShortCalls /\ Next

NextQuery ==
    \/ ApplyThenQuery
    \/ getCodeAtActionIndex
    \/ getHighlightedCodeAtActionIndex

SpecQuery == Init /\ [][NextQuery]_vars

\* ------------------------- the calls on the editor of src/VirtualEditor.ts

SrcNumTimes(action) ==
    IF SrcIsRepeatableAction(action) THEN ParseInt(action.value) ELSE One

\* The working record after the switch of applyAction(action); reading the
\* length of a line the buffer does not have raises a TypeError.
SrcEffect(action) ==
    IF srcEditor.caretRow < 0 \/ srcEditor.caretRow >= Len(srcEditor.codeLines)
    THEN [SrcFields EXCEPT !.hl = <<>>, !.threw = TRUE]
    ELSE SrcSwitch(action, [SrcFields EXCEPT !.hl = <<>>], SrcNumTimes(action),
                   Len(srcEditor.codeLines[srcEditor.caretRow + 1]))

SrcApplyAction(action) ==
    /\ ~srcRun.aborted
    /\ srcRun.calls < MaxSrcCalls
    /\ \E e \in {SrcEffect(action)} :
           /\ srcEditor' = IF e.threw THEN SrcLive(srcEditor, e)
                           ELSE SrcRecord(srcEditor, e, action)
           /\ srcRun' = [calls |-> srcRun.calls + 1,
                         aborted |-> e.threw,
                         lastCall |-> [op |-> "applyAction", arg |-> action,
                                       threw |-> e.threw,
                                       value |-> IF e.threw THEN <<>>
                                                 ELSE Join(e.lines)]]
    /\ UNCHANGED <<live, logs, calls, aborted, lastCall>>

SrcActions ==
    [name : SrcRepeatableNames \ {"enter"}, value : RepeatValues]
        \cup [name : {"enter"}, value : SrcEnterValues]
        \cup [name : {"type-editor"}, value : SrcTypeValues]
        \cup [name : SrcSpeakNames, value : SrcSpeakValues]
        \cup [name : UnknownNames, value : UnknownValues]

SrcApplyAnyAction == \E action \in SrcActions : SrcApplyAction(action)

\* getCodeAtActionIndex(actionIndex) of this class
SrcCodeAtActionIndex(history, actionIndex) ==
    IF actionIndex > Len(history) - 1 THEN [threw |-> TRUE, value |-> <<>>]
    ELSE IF actionIndex < 0 THEN [threw |-> TRUE, value |-> <<>>]
    ELSE [threw |-> FALSE, value |-> Join(history[actionIndex + 1])]

\* A variant of SrcFrame: every frame shows the current text.
SrcFrameOfNow(ed, index) ==
    [ actionApplied |-> ed.actionsApplied[index + 1],
      code |-> Join(ed.codeLines),
      highlightStartPosition |->
          IF ed.highlightStartPositionHistory[index + 1].row # -1
          THEN <<[row |-> ed.highlightStartPositionHistory[index + 1].row,
                  col |-> ed.highlightStartPositionHistory[index + 1].column]>>
          ELSE <<>>,
      highlightedCode |-> Join(ed.highlightHistory[index + 1]),
      caretPosition |-> [row |-> ed.caretPositionHistory[index + 1].row,
                         col |-> ed.caretPositionHistory[index + 1].column],
      speechCaptions |->
          IF isSpeakAction(ed.actionsApplied[index + 1])
          THEN <<[speechType |-> ed.actionsApplied[index + 1].name,
                  speechValue |-> ed.actionsApplied[index + 1].value]>>
          ELSE <<>> ]

\* The frame getDataForAnnotatedFrames makes for one index of the action
\* log; null is the empty sequence, a position the sequence holding it.
SrcFrame(ed, index) ==
    [ actionApplied |-> ed.actionsApplied[index + 1],
      code |-> SrcCodeAtActionIndex(ed.codeLinesHistory, index).value,
      highlightStartPosition |->
          IF ed.highlightStartPositionHistory[index + 1].row # -1
          THEN <<[row |-> ed.highlightStartPositionHistory[index + 1].row,
                  col |-> ed.highlightStartPositionHistory[index + 1].column]>>
          ELSE <<>>,
      highlightedCode |-> Join(ed.highlightHistory[index + 1]),
      caretPosition |-> [row |-> ed.caretPositionHistory[index + 1].row,
                         col |-> ed.caretPositionHistory[index + 1].column],
      speechCaptions |->
          IF isSpeakAction(ed.actionsApplied[index + 1])
          THEN <<[speechType |-> ed.actionsApplied[index + 1].name,
                  speechValue |-> ed.actionsApplied[index + 1].value]>>
          ELSE <<>> ]

\* The outcome of getDataForAnnotatedFrames(): an error when a log is
\* shorter than the action log, else one frame per entry of the action log.
SrcDataForAnnotatedFrames(ed) ==
    IF \/ Len(ed.codeLinesHistory) < Len(ed.actionsApplied)
       \/ Len(ed.highlightStartPositionHistory) < Len(ed.actionsApplied)
       \/ Len(ed.highlightHistory) < Len(ed.actionsApplied)
       \/ Len(ed.caretPositionHistory) < Len(ed.actionsApplied)
    THEN [threw |-> TRUE, value |-> <<>>]
    ELSE [threw |-> FALSE,
          value |-> [i \in 1..Len(ed.actionsApplied) |-> SrcFrame(ed, i - 1)]]

getDataForAnnotatedFrames ==
    /\ srcRun' = [srcRun EXCEPT
                      !.lastCall = [op |-> "getDataForAnnotatedFrames",
                                    arg |-> <<>>,
                                    threw |-> SrcDataForAnnotatedFrames(srcEditor).threw,
                                    value |-> SrcDataForAnnotatedFrames(srcEditor).value]]
    /\ UNCHANGED <<live, logs, calls, aborted, lastCall, srcEditor>>

SrcNext ==
    \/ SrcApplyAnyAction
    \/ getDataForAnnotatedFrames

SpecSrc == Init /\ [][SrcNext]_vars

\* ----------------------------------------------- the two editors together

\* One call of applyAction on one of the two editors, each constructed from
\* the same initial lines.
NextBoth ==
    /\ calls + srcRun.calls < MaxBothCalls
    /\ \/ Next
       \/ SrcApplyAnyAction

SpecBoth == Init /\ [][NextBoth]_vars

\* ================================================================ claims

\* The last call was applyAction with an action of one of these kinds, and it
\* returned.
Applied(names) ==
    /\ lastCall.op = "applyAction"
    /\ ~lastCall.threw
    /\ lastCall.arg.name \in names

\* The entries of the history logs before the last one (the state before the
\* last applyAction that returned).
PrevCaret == caretPositionHistory[Len(caretPositionHistory) - 1]

PrevAnchor == highlightStartPositionHistory[Len(highlightStartPositionHistory) - 1]

PrevLines == EntryLines(codeLinesHistory[Len(codeLinesHistory) - 1])

\* (row, col) is a position of the buffer
InBuffer(lines, row, col) ==
    /\ row >= 0
    /\ row < Len(lines)
    /\ col >= 0
    /\ col <= Len(lines[row + 1])

\* C1: after construction and after any sequence of applyAction calls the
\* line buffer holds at least one line.
C1_BufferNeverEmpty == Len(codeLines) >= 1

\* C1 witness: a backspace at the start of the second of two lines has merged
\* them into the single remaining line.
C1_Witness ==
    /\ Applied({"editor-backspace"})
    /\ Len(PrevLines) = 2
    /\ PrevAnchor.row = -1
    /\ Len(codeLines) = 1

\* C2: after construction and after any sequence of applyAction calls the
\* caret row is a row of the buffer: 0 <= caretRow < codeLines.length.
C2_CaretRowInBuffer == caretRow >= 0 /\ caretRow < Len(codeLines)

\* C3: after construction and after any sequence of applyAction calls the
\* caret column lies on its line: 0 <= caretCol <= length of line caretRow.
C3_CaretColInLine ==
    (caretRow >= 0 /\ caretRow < Len(codeLines)) =>
        (caretCol >= 0 /\ caretCol <= Len(codeLines[caretRow + 1]))

\* C4: after construction and k applyAction calls every log has exactly k+1
\* entries: the action log, the buffer-snapshot log, the caret log, the
\* selection-anchor log and the highlighted-text log.
C4_LogsAligned ==
    /\ Len(actionsApplied) = calls + 1
    /\ Len(codeLinesHistory) = calls + 1
    /\ Len(caretPositionHistory) = calls + 1
    /\ Len(highlightStartPositionHistory) = calls + 1
    /\ Len(highlightHistory) = calls + 1

\* C5: history is append-only and immutable: no step shortens a log, and
\* every entry a log holds shows the same buffer, caret, anchor and
\* highlighted text after the step as before it, whatever the step did to
\* the live buffer.
C5_HistoryImmutable ==
    [][ /\ Len(codeLinesHistory') >= Len(codeLinesHistory)
        /\ Len(caretPositionHistory') >= Len(caretPositionHistory)
        /\ Len(highlightStartPositionHistory') >= Len(highlightStartPositionHistory)
        /\ Len(highlightHistory') >= Len(highlightHistory)
        /\ \A i \in 1..Len(codeLinesHistory) :
               EntryLines(codeLinesHistory[i])' = EntryLines(codeLinesHistory[i])
        /\ \A i \in 1..Len(caretPositionHistory) :
               caretPositionHistory'[i] = caretPositionHistory[i]
        /\ \A i \in 1..Len(highlightStartPositionHistory) :
               highlightStartPositionHistory'[i] = highlightStartPositionHistory[i]
        /\ \A i \in 1..Len(highlightHistory) :
               highlightHistory'[i] = highlightHistory[i]
      ]_vars

\* C5 witness: three actions were applied and the live buffer is none of the
\* three earlier snapshots, which differ from one another.
C5_Witness ==
    /\ Len(codeLinesHistory) = 4
    /\ \A i \in 1..3 : EntryLines(codeLinesHistory[i]) # codeLines
    /\ EntryLines(codeLinesHistory[1]) # EntryLines(codeLinesHistory[2])
    /\ EntryLines(codeLinesHistory[2]) # EntryLines(codeLinesHistory[3])

\* C6: after every applyAction call the last history entry is the live
\* state: buffer snapshot = lines, caret snapshot = caret, anchor snapshot =
\* selection anchor.
C6_LastEntryIsLiveState ==
    lastCall.op = "applyAction" =>
        /\ EntryLines(codeLinesHistory[Len(codeLinesHistory)]) = codeLines
        /\ caretPositionHistory[Len(caretPositionHistory)]
               = [row |-> caretRow, col |-> caretCol]
        /\ highlightStartPositionHistory[Len(highlightStartPositionHistory)]
               = [row |-> highlightStartRow, col |-> highlightStartCol]

\* C7: applyAction completes without raising an error, in every reachable
\* state and for every action record: every kind, every payload, every
\* repeat count (positive, 0, negative, not a number), selection or not.
C7_ApplyActionNeverRaises == lastCall.op = "applyAction" => ~lastCall.threw

\* C8: applyAction with an unrecognized kind leaves the buffer, the caret,
\* the selection anchor, the saved flag and the context-menu flag as they
\* were, and appends exactly one entry to the action log and to every
\* history log: the action, and the unchanged buffer, caret and anchor.
C8_UnrecognizedIsNoOp ==
    [][ (/\ calls' = calls + 1
         /\ lastCall'.op = "applyAction"
         /\ lastCall'.arg.name \in UnknownNames)
        => /\ UNCHANGED <<codeLines, caretRow, caretCol, highlightStartRow,
                          highlightStartCol, isSaved, isEditorContextMenuOpen>>
           /\ ~lastCall'.threw
           /\ actionsApplied' = Append(actionsApplied, lastCall'.arg)
           /\ Len(codeLinesHistory') = Len(codeLinesHistory) + 1
           /\ EntryLines(codeLinesHistory[Len(codeLinesHistory)])' = codeLines
           /\ caretPositionHistory' =
                  Append(caretPositionHistory, [row |-> caretRow, col |-> caretCol])
           /\ highlightStartPositionHistory' =
                  Append(highlightStartPositionHistory,
                         [row |-> highlightStartRow, col |-> highlightStartCol])
           /\ Len(highlightHistory') = Len(highlightHistory) + 1
      ]_vars

\* C8 witness: an unrecognized kind was applied while a selection was active
\* and the saved flag was set, away from the origin.
C8_Witness ==
    /\ Applied(UnknownNames)
    /\ highlightStartRow # -1
    /\ <<highlightStartRow, highlightStartCol>> # <<caretRow, caretCol>>
    /\ isSaved

\* C9: with n recorded entries, getCodeAtActionIndex(i) and
\* getHighlightedCodeAtActionIndex(i) raise an error for every i >= n and
\* return the snapshot recorded at exactly index i for 0 <= i < n; a query,
\* failing or not, changes neither the live state nor any log.
C9_QueryContract ==
    [][ lastCall'.op \in {"getCodeAtActionIndex", "getHighlightedCodeAtActionIndex"}
        => LET i == lastCall'.arg
               n == Len(actionsApplied)
           IN  /\ UNCHANGED <<live, logs>>
               /\ i >= n => lastCall'.threw
               /\ (i >= 0 /\ i < n) =>
                      /\ ~lastCall'.threw
                      /\ lastCall'.op = "getCodeAtActionIndex" =>
                             lastCall'.value = Join(EntryLines(codeLinesHistory[i + 1]))
                      /\ lastCall'.op = "getHighlightedCodeAtActionIndex" =>
                             lastCall'.value = highlightHistory[i + 1][1]
      ]_vars

\* C9 witness: with three recorded entries whose buffers differ, index 3 was
\* asked for and the query raised.
C9_Witness ==
    /\ lastCall.op = "getCodeAtActionIndex"
    /\ Len(codeLinesHistory) = 3
    /\ lastCall.arg = 3
    /\ lastCall.threw
    /\ EntryLines(codeLinesHistory[3]) # EntryLines(codeLinesHistory[2])

\* The number of characters of the joined text before position (row, col).
RECURSIVE OffsetOf(_, _, _)
OffsetOf(lines, row, col) ==
    IF row = 0 THEN col
    ELSE Len(lines[1]) + 1 + OffsetOf(Tail(lines), row - 1, col)

\* text with payload put in at offset
InsertAt(text, offset, payload) ==
    SubSeq(text, 1, offset) \o payload \o SubSeq(text, offset + 1, Len(text))

LineBreaks(payload) == Cardinality({i \in 1..Len(payload) : payload[i] = NL})

\* The last segment of a payload: what follows its last line break.
RECURSIVE LastSegment(_)
LastSegment(payload) ==
    IF Len(payload) = 0 \/ payload[Len(payload)] = NL THEN <<>>
    ELSE Append(LastSegment(SubSeq(payload, 1, Len(payload) - 1)),
                payload[Len(payload)])

\* C10: with no selection active and the caret inside the buffer, editor-type
\* of a payload with k line breaks makes the joined text the old joined text
\* with the payload inserted at the caret, grows the buffer by exactly k
\* lines, ends the caret's new line with the remainder of the original line,
\* and leaves the caret at (row + k, length of the last segment) for k >= 1
\* and at (row, col + payload length) for k = 0.
C10_TypeInsertsPayload ==
    [][ (/\ calls' = calls + 1
         /\ lastCall'.op = "applyAction"
         /\ lastCall'.arg.name = "editor-type"
         /\ highlightStartRow = -1
         /\ InBuffer(codeLines, caretRow, caretCol))
        => LET payload == lastCall'.arg.value
               k == LineBreaks(payload)
               rest == SubstringFrom(codeLines[caretRow + 1], caretCol)
           IN  /\ ~lastCall'.threw
               /\ Join(codeLines') =
                      InsertAt(Join(codeLines),
                               OffsetOf(codeLines, caretRow, caretCol), payload)
               /\ Len(codeLines') = Len(codeLines) + k
               /\ caretRow' = caretRow + k
               /\ caretCol' = IF k = 0 THEN caretCol + Len(payload)
                              ELSE Len(LastSegment(payload))
               /\ codeLines'[caretRow' + 1] =
                      (IF k = 0
                       THEN Substring(codeLines[caretRow + 1], 0, caretCol) \o payload
                       ELSE LastSegment(payload)) \o rest
      ]_vars

\* C10 witness: a payload with two line breaks was typed in the middle of a
\* line, no selection being active: the text after the caret now follows the
\* caret on a line two rows further down.
C10_Witness ==
    /\ Applied({"editor-type"})
    /\ LineBreaks(lastCall.arg.value) = 2
    /\ PrevAnchor.row = -1
    /\ InBuffer(PrevLines, PrevCaret.row, PrevCaret.col)
    /\ PrevCaret.col > 0
    /\ PrevCaret.col < Len(PrevLines[PrevCaret.row + 1])
    /\ caretRow = PrevCaret.row + 2
    /\ caretCol < Len(codeLines[caretRow + 1])

\* A selection is active: the anchor is set.
SelectionActive == highlightStartRow # -1

\* The anchor comes before the caret, ordered by row then column.
AnchorFirst ==
    \/ highlightStartRow < caretRow
    \/ highlightStartRow = caretRow /\ highlightStartCol <= caretCol

\* The anchor and the caret are both positions of the buffer.
SelectionInBuffer ==
    /\ SelectionActive
    /\ InBuffer(codeLines, highlightStartRow, highlightStartCol)
    /\ InBuffer(codeLines, caretRow, caretCol)

\* Offsets in the joined text of the selection's start and end.
SelStartOffset ==
    IF AnchorFirst THEN OffsetOf(codeLines, highlightStartRow, highlightStartCol)
    ELSE OffsetOf(codeLines, caretRow, caretCol)

SelEndOffset ==
    IF AnchorFirst THEN OffsetOf(codeLines, caretRow, caretCol)
    ELSE OffsetOf(codeLines, highlightStartRow, highlightStartCol)

SelStartRow == IF AnchorFirst THEN highlightStartRow ELSE caretRow

SelStartCol == IF AnchorFirst THEN highlightStartCol ELSE caretCol

\* The joined text with the selection replaced by payload.
ReplaceSelection(payload) ==
    SubSeq(Join(codeLines), 1, SelStartOffset) \o payload
        \o SubSeq(Join(codeLines), SelEndOffset + 1, Len(Join(codeLines)))

\* This step is a call of applyAction with an action of one of these kinds.
Calls(names) ==
    /\ calls' = calls + 1
    /\ lastCall'.op = "applyAction"
    /\ lastCall'.arg.name \in names

\* C11: with a selection active (anchor before or after the caret, on the
\* same line or not), editor-type removes exactly the text between the
\* selection's start and end ordered by row then column, clears the
\* selection and inserts the payload at the selection's start: the joined
\* text becomes (text before the selection) + payload + (text after it), and
\* the caret stands right after the payload.
C11_TypeReplacesSelection ==
    [][ (Calls({"editor-type"}) /\ SelectionInBuffer)
        => /\ ~lastCall'.threw
           /\ highlightStartRow' = -1
           /\ highlightStartCol' = -1
           /\ Join(codeLines') = ReplaceSelection(lastCall'.arg.value)
           /\ caretRow' >= 0
           /\ caretRow' < Len(codeLines')
           /\ OffsetOf(codeLines', caretRow', caretCol')
                  = SelStartOffset + Len(lastCall'.arg.value)
      ]_vars

\* The repeat count a count string stands for, when it is a number.
CountOf(value) == ParseInt(value).n

IsCount(value) == ~ParseInt(value).nan

\* The caret's column brought into its line.
ColInLine == Clamp(caretCol, 0, Len(codeLines[caretRow + 1]))

BeforeCaret == SubSeq(codeLines[caretRow + 1], 1, ColInLine)

AfterCaret ==
    SubSeq(codeLines[caretRow + 1], ColInLine + 1, Len(codeLines[caretRow + 1]))

\* C12: with no selection active, editor-enter with count n >= 1 splits the
\* caret's line at the caret: the buffer grows by exactly n lines, the text
\* before the caret stays on the original row, n-1 empty lines follow it, the
\* text after the caret is on row+n, every other line keeps its place in the
\* order, and the caret ends at (row+n, 0).
C12_EnterSplitsLine ==
    [][ (/\ Calls({"editor-enter"})
         /\ ~SelectionActive
         /\ IsCount(lastCall'.arg.value)
         /\ CountOf(lastCall'.arg.value) >= 1)
        => LET n == CountOf(lastCall'.arg.value)
           IN  /\ ~lastCall'.threw
               /\ Len(codeLines') = Len(codeLines) + n
               /\ codeLines'[caretRow + 1] = BeforeCaret
               /\ \A i \in 1..(n - 1) : codeLines'[caretRow + 1 + i] = <<>>
               /\ codeLines'[caretRow + n + 1] = AfterCaret
               /\ \A j \in 1..caretRow : codeLines'[j] = codeLines[j]
               /\ \A j \in (caretRow + 2)..Len(codeLines) :
                      codeLines'[j + n] = codeLines[j]
               /\ caretRow' = caretRow + n
               /\ caretCol' = 0
               /\ ~SelectionActive'
      ]_vars

\* C12 witness: editor-enter "2" was applied with the caret in the middle of
\* a line that has a line below it, no selection being active.
C12_Witness ==
    /\ Applied({"editor-enter"})
    /\ lastCall.arg.value = <<"2">>
    /\ PrevAnchor.row = -1
    /\ PrevCaret.col > 0
    /\ PrevCaret.col < Len(PrevLines[PrevCaret.row + 1])
    /\ Len(PrevLines) > PrevCaret.row + 1
    /\ Len(codeLines) = Len(PrevLines) + 2
    /\ codeLines[caretRow + 1] # <<>>

\* n line breaks
Newlines(n) == [i \in 1..n |-> NL]

\* C13: with a selection active, editor-enter with count n >= 1 gives the
\* buffer and caret of Selection Deletion followed by a no-selection
\* editor-enter n at the collapsed caret: exactly n line breaks stand between
\* the text before the selection and the text after it, the lines below the
\* selection stay below the trailing text in their order, the caret is at
\* column 0 of the line holding the trailing text, and the selection is
\* cleared.
C13_EnterOverSelection ==
    [][ (/\ Calls({"editor-enter"})
         /\ SelectionInBuffer
         /\ IsCount(lastCall'.arg.value)
         /\ CountOf(lastCall'.arg.value) >= 1)
        => LET n == CountOf(lastCall'.arg.value)
           IN  /\ ~lastCall'.threw
               /\ Join(codeLines') = ReplaceSelection(Newlines(n))
               /\ caretRow' = SelStartRow + n
               /\ caretCol' = 0
               /\ ~SelectionActive'
      ]_vars

SelEndRow == IF AnchorFirst THEN caretRow ELSE highlightStartRow

\* C14: with a selection active, editor-backspace with any repeat count
\* removes exactly the text between the selection's start and end ordered by
\* row then column, once: the head of the first line is joined with the tail
\* of the last line, the lines in between and the last line are removed, the
\* caret ends at the selection's start and no selection is active afterwards.
C14_BackspaceDeletesSelection ==
    [][ (Calls({"editor-backspace"}) /\ SelectionInBuffer)
        => /\ ~lastCall'.threw
           /\ Join(codeLines') = ReplaceSelection(<<>>)
           /\ Len(codeLines') = Len(codeLines) - (SelEndRow - SelStartRow)
           /\ caretRow' = SelStartRow
           /\ caretCol' = SelStartCol
           /\ highlightStartRow' = -1
           /\ highlightStartCol' = -1
      ]_vars

\* C14 witness: editor-backspace "2" was applied over a selection whose
\* anchor was on a later line than the caret; one line went away and the
\* caret stayed at the selection's start.
C14_Witness ==
    /\ Applied({"editor-backspace"})
    /\ lastCall.arg.value = <<"2">>
    /\ PrevAnchor.row > PrevCaret.row
    /\ PrevCaret.col > 0
    /\ Len(codeLines) = Len(PrevLines) - 1
    /\ caretRow = PrevCaret.row
    /\ caretCol = PrevCaret.col
    /\ highlightStartRow = -1

\* One delete-backward iteration on a position s = [lines, row, col], as the
\* three cases describe it.
DeleteBackwardOnce(s) ==
    IF s.col > 0
    THEN [s EXCEPT !.lines[s.row + 1] =
                       SubSeq(@, 1, s.col - 1) \o SubSeq(@, s.col + 1, Len(@)),
                   !.col = s.col - 1]
    ELSE IF s.row > 0
    THEN [lines |-> SubSeq(s.lines, 1, s.row - 1)
                        \o <<s.lines[s.row] \o s.lines[s.row + 1]>>
                        \o SubSeq(s.lines, s.row + 2, Len(s.lines)),
          row |-> s.row - 1,
          col |-> Len(s.lines[s.row])]
    ELSE s

RECURSIVE DeleteBackward(_, _)
DeleteBackward(s, n) ==
    IF n <= 0 THEN s ELSE DeleteBackward(DeleteBackwardOnce(s), n - 1)

\* C15: with no selection active, each of the n iterations of
\* editor-backspace does exactly one of: with col > 0, remove the one
\* character before the caret and decrease col by 1 (the line gets one
\* character shorter); with col = 0 and row > 0, append the caret's line to
\* the previous line, remove it, and put the caret at (row-1, the previous
\* line's length before the merge); at (0,0), change nothing.
C15_BackspaceIterations ==
    [][ (/\ Calls({"editor-backspace"})
         /\ ~SelectionActive
         /\ caretCol >= 0
         /\ IsCount(lastCall'.arg.value))
        => LET n == CountOf(lastCall'.arg.value)
               s == DeleteBackward([lines |-> codeLines, row |-> caretRow,
                                    col |-> caretCol], n)
               one == CountOf(lastCall'.arg.value) = 1
           IN  /\ ~lastCall'.threw
               /\ codeLines' = s.lines
               /\ caretRow' = s.row
               /\ caretCol' = s.col
               /\ (one /\ caretCol > 0) =>
                      Len(Join(codeLines')) = Len(Join(codeLines)) - 1
      ]_vars

\* The state two applyAction calls ago, as the logs recorded it.
BeforeLastTwoLines == EntryLines(codeLinesHistory[Len(codeLinesHistory) - 2])

BeforeLastTwoCaret == caretPositionHistory[Len(caretPositionHistory) - 2]

\* The last two calls were editor-type of one character that is no line
\* break, then editor-backspace "1", and both returned.
TypedThenDeleted ==
    /\ Len(actionsApplied) >= 3
    /\ Applied({"editor-backspace"})
    /\ lastCall.arg.value = <<"1">>
    /\ actionsApplied[Len(actionsApplied) - 1].name = "editor-type"
    /\ Len(actionsApplied[Len(actionsApplied) - 1].value) = 1
    /\ actionsApplied[Len(actionsApplied) - 1].value # <<NL>>

\* C16: in every reachable state, editor-type of a one-character payload
\* immediately followed by editor-backspace "1" leaves the buffer and the
\* caret exactly as they were before the editor-type.
C16_TypeBackspaceRoundTrip ==
    TypedThenDeleted =>
        /\ codeLines = BeforeLastTwoLines
        /\ caretRow = BeforeLastTwoCaret.row
        /\ caretCol = BeforeLastTwoCaret.col

\* C17: editor-arrow-left or editor-arrow-up applied with the caret at (0,0),
\* and any repeatable action applied with repeat count 0, leaves the state
\* unchanged: the buffer, the caret and the selection anchor.
C17_NothingToDoChangesNothing ==
    [][ (\/ /\ Calls({"editor-arrow-left", "editor-arrow-up"})
            /\ caretRow = 0
            /\ caretCol = 0
         \/ /\ Calls(RepeatableNames)
            /\ IsCount(lastCall'.arg.value)
            /\ CountOf(lastCall'.arg.value) = 0)
        => UNCHANGED <<codeLines, caretRow, caretCol,
                       highlightStartRow, highlightStartCol>>
      ]_vars

\* C18: a repeatable action whose payload does not parse as an integer is
\* applied exactly once: it returns, and leaves the buffer, the caret and the
\* selection anchor that the same action with repeat count "1" leaves.
C18_MalformedCountAppliesOnce ==
    [][ (Calls(RepeatableNames) /\ ~IsCount(lastCall'.arg.value))
        => LET once == Effect([name |-> lastCall'.arg.name, value |-> <<"1">>])
           IN  /\ ~lastCall'.threw
               /\ codeLines' = once.lines
               /\ caretRow' = once.row
               /\ caretCol' = once.col
               /\ highlightStartRow' = once.hRow
               /\ highlightStartCol' = once.hCol
      ]_vars

\* The kinds that change the buffer's text.
BufferMutatingNames ==
    { "editor-type", "editor-enter", "editor-backspace", "editor-space",
      "editor-tab" }

\* The kinds of the actions applied since construction, in order: those the
\* action log recorded, then the one whose call raised, if one did.
KindsApplied ==
    [i \in 2..Len(actionsApplied) |-> actionsApplied[i].name]

LastKindRaised == lastCall.op = "applyAction" /\ lastCall.threw

SavedByTheLog ==
    IF LastKindRaised /\ lastCall.arg.name \in BufferMutatingNames THEN FALSE
    ELSE IF LastKindRaised /\ lastCall.arg.name = "editor-save" THEN TRUE
    ELSE \E i \in 2..Len(actionsApplied) :
             /\ KindsApplied[i] = "editor-save"
             /\ \A j \in (i + 1)..Len(actionsApplied) :
                    KindsApplied[j] \notin BufferMutatingNames

\* C19: the saved flag is true exactly when an editor-save has been applied
\* and no buffer-mutating action (editor-type, editor-enter,
\* editor-backspace, editor-space, editor-tab) has been applied after it; the
\* flag is false right after every one of those five.
C19_SavedFlag == isSaved <=> SavedByTheLog

\* n spaces
Spaces(n) == [i \in 1..n |-> " "]

\* C20: with no selection active editor-space with count n inserts exactly n
\* spaces at the caret and advances the column by n, the row and all other
\* text staying as they were; with a selection active it first removes the
\* text between the selection's start and end ordered by row then column,
\* puts the caret at the selection's start and clears the selection, then
\* inserts the n spaces there.
C20_SpaceInsertsSpaces ==
    [][ (/\ Calls({"editor-space"})
         /\ IsCount(lastCall'.arg.value)
         /\ CountOf(lastCall'.arg.value) >= 0)
        => LET n == CountOf(lastCall'.arg.value)
           IN  /\ ~lastCall'.threw
               /\ ~SelectionActive =>
                      /\ Join(codeLines') =
                             InsertAt(Join(codeLines),
                                      OffsetOf(codeLines, caretRow, ColInLine),
                                      Spaces(n))
                      /\ Len(codeLines') = Len(codeLines)
                      /\ caretRow' = caretRow
                      /\ caretCol' = caretCol + n
                      /\ ~SelectionActive'
               /\ SelectionInBuffer =>
                      /\ Join(codeLines') = ReplaceSelection(Spaces(n))
                      /\ caretRow' = SelStartRow
                      /\ caretCol' = SelStartCol + n
                      /\ ~SelectionActive'
      ]_vars

\* ------------------------------- claims on the editor of src/VirtualEditor.ts

\* An applyAction call on the editor of src/VirtualEditor.ts is the step.
SrcApplied ==
    /\ srcRun'.calls = srcRun.calls + 1
    /\ srcRun'.lastCall.op = "applyAction"

SrcCalls(names) == SrcApplied /\ srcRun'.lastCall.arg.name \in names

\* The speech kinds and the editing kinds of the spec's action table.
SpeechKinds == {"speak-before", "speak-after", "speak-during"}

EditingKinds ==
    { "type-editor", "enter", "arrow-down", "arrow-up", "arrow-right",
      "arrow-left", "backspace", "space", "tab", "command-left",
      "command-right", "shift+arrow-right", "shift+arrow-left" }

\* The entries of a log that are of the given kinds, in the log's order.
OfKinds(log, kinds) == SelectSeq(log, LAMBDA a : a.name \in kinds)

\* C21: the full action log is the seed followed by every applied action in
\* call order; the editing-only log is the seed followed by the applied
\* actions that are editing actions, in order; the speech-only log is the
\* applied speech actions, in order (a call that raised applied nothing).
C21_ThreeActionLogs ==
  /\ [][SrcApplied =>
            srcEditor'.actionsApplied =
                IF srcRun'.lastCall.threw THEN srcEditor.actionsApplied
                ELSE Append(srcEditor.actionsApplied, srcRun'.lastCall.arg)]_vars
  /\ [](
    /\ srcEditor.actionsApplied[1] =
           [name |-> "type-editor", value |-> Join(srcEditor.codeLinesHistory[1])]
    /\ srcEditor.codeActionsApplied = OfKinds(srcEditor.actionsApplied, EditingKinds)
    /\ srcEditor.speakActionsApplied = OfKinds(srcEditor.actionsApplied, SpeechKinds)
    /\ Len(srcEditor.actionsApplied) =
           1 + srcRun.calls - (IF srcRun.aborted THEN 1 ELSE 0)
    /\ (srcRun.lastCall.op = "applyAction" /\ ~srcRun.lastCall.threw)
           => srcEditor.actionsApplied[Len(srcEditor.actionsApplied)] =
                  srcRun.lastCall.arg )

C21_Witness ==
    /\ Len(srcEditor.actionsApplied) = 4
    /\ Len(srcEditor.codeActionsApplied) = 2
    /\ Len(srcEditor.speakActionsApplied) = 1
    /\ srcEditor.actionsApplied[3].name \in SpeechKinds

\* C22: a speech action (speak-before, speak-after, speak-during) leaves the
\* buffer, the caret and the anchor as they were; the caption log gets
\* exactly one entry per applied action, the speech kind and text for a
\* speech action and an empty placeholder for any other, and so has the
\* length of the action log.
C22_SpeechAndCaptions ==
  /\ [][SrcApplied =>
          /\ srcRun'.lastCall.arg.name \in SpeechKinds =>
                 /\ ~srcRun'.lastCall.threw
                 /\ srcEditor'.codeLines = srcEditor.codeLines
                 /\ srcEditor'.caretRow = srcEditor.caretRow
                 /\ srcEditor'.caretColumn = srcEditor.caretColumn
                 /\ srcEditor'.highlightStartRow = srcEditor.highlightStartRow
                 /\ srcEditor'.highlightStartColumn = srcEditor.highlightStartColumn
          /\ ~srcRun'.lastCall.threw =>
                 srcEditor'.speechCaptionHistory =
                     Append(srcEditor.speechCaptionHistory,
                            IF srcRun'.lastCall.arg.name \in SpeechKinds
                            THEN [speechType |-> srcRun'.lastCall.arg.name,
                                  speechValue |-> srcRun'.lastCall.arg.value]
                            ELSE [speechType |-> "", speechValue |-> <<>>])
          /\ srcRun'.lastCall.threw =>
                 srcEditor'.speechCaptionHistory = srcEditor.speechCaptionHistory
      ]_vars
  /\ [](Len(srcEditor.speechCaptionHistory) = Len(srcEditor.actionsApplied))

C22_Witness ==
    /\ srcRun.lastCall.op = "applyAction"
    /\ srcRun.lastCall.arg.name = "speak-during"
    /\ srcEditor.caretColumn > 0
    /\ srcEditor.highlightStartRow # -1
    /\ Len(srcEditor.speechCaptionHistory) = 4
    /\ srcEditor.speechCaptionHistory[4].speechType = "speak-during"
    /\ srcEditor.speechCaptionHistory[3].speechType = ""

\* The last call was getDataForAnnotatedFrames.
FramesReturned == srcRun.lastCall.op = "getDataForAnnotatedFrames"

\* C23: getDataForAnnotatedFrames returns one frame per recorded index; the
\* frame of index i carries action i, the joined text of snapshot i, caret i
\* and highlighted text i, its anchor is absent exactly when anchor snapshot
\* i is the sentinel (and is that snapshot otherwise), and its caption list
\* is non-empty exactly when action i is a speech action; the call changes
\* no state and no log.
C23_AnnotatedFrames ==
  /\ [](FramesReturned =>
          /\ ~srcRun.lastCall.threw
          /\ Len(srcRun.lastCall.value) = Len(srcEditor.actionsApplied)
          /\ \A i \in 1..Len(srcEditor.actionsApplied) :
                 LET frame == srcRun.lastCall.value[i]
                     anchor == srcEditor.highlightStartPositionHistory[i]
                     caret == srcEditor.caretPositionHistory[i]
                 IN  /\ frame.actionApplied = srcEditor.actionsApplied[i]
                     /\ frame.code = Join(srcEditor.codeLinesHistory[i])
                     /\ frame.caretPosition = [row |-> caret.row, col |-> caret.column]
                     /\ frame.highlightedCode = Join(srcEditor.highlightHistory[i])
                     /\ frame.highlightStartPosition = <<>>
                            <=> (anchor.row = -1 /\ anchor.column = -1)
                     /\ frame.highlightStartPosition # <<>> =>
                            frame.highlightStartPosition =
                                <<[row |-> anchor.row, col |-> anchor.column]>>
                     /\ frame.speechCaptions # <<>>
                            <=> frame.actionApplied.name \in SpeechKinds)
  /\ [][srcRun'.calls = srcRun.calls => srcEditor' = srcEditor]_vars

C23_Witness ==
    /\ FramesReturned
    /\ Len(srcRun.lastCall.value) = 4
    /\ srcRun.lastCall.value[1].highlightStartPosition = <<>>
    /\ srcRun.lastCall.value[2].highlightStartPosition # <<>>
    /\ srcRun.lastCall.value[3].speechCaptions # <<>>
    /\ srcRun.lastCall.value[4].code # srcRun.lastCall.value[2].code

\* C24: immediately after construction, for any initial lines (the empty
\* list being replaced by one empty line), the caret is at (0,0), no
\* selection is active in the live state, and each log has exactly one entry:
\* the seed insert-text action carrying the joined initial text, the initial
\* lines, caret (0,0), the no-selection sentinel anchor and empty highlighted
\* text.
C24_AfterConstruction ==
    srcRun.calls = 0 =>
        /\ Len(srcEditor.codeLines) >= 1
        /\ srcEditor.caretRow = 0
        /\ srcEditor.caretColumn = 0
        /\ srcEditor.highlightStartRow = -1
        /\ srcEditor.highlightStartColumn = -1
        /\ srcEditor.currentlyHighlightedCode = <<>>
        /\ srcEditor.actionsApplied =
               <<[name |-> "type-editor", value |-> Join(srcEditor.codeLines)]>>
        /\ srcEditor.codeActionsApplied = srcEditor.actionsApplied
        /\ srcEditor.codeLinesHistory = <<srcEditor.codeLines>>
        /\ srcEditor.caretPositionHistory = <<[row |-> 0, column |-> 0]>>
        /\ srcEditor.highlightStartPositionHistory = <<[row |-> -1, column |-> -1]>>
        /\ srcEditor.highlightHistory = << << <<>> >> >>

\* One iteration of move-left as the three cases give it, and n of them.
MoveLeftOnce(lines, pos) ==
    IF pos.col > 0 THEN [row |-> pos.row, col |-> pos.col - 1]
    ELSE IF pos.row > 0
    THEN [row |-> pos.row - 1, col |-> Len(lines[pos.row])]
    ELSE pos

RECURSIVE MoveLeft(_, _, _)
MoveLeft(lines, pos, n) ==
    IF n <= 0 THEN pos ELSE MoveLeft(lines, MoveLeftOnce(lines, pos), n - 1)

SrcCaret == [row |-> srcEditor.caretRow, col |-> srcEditor.caretColumn]

SrcCount == ParseInt(srcRun.lastCall.arg.value).n

SrcIsCount == ~ParseInt(srcRun.lastCall.arg.value).nan

\* C25: in each iteration of move-left, from a column > 0 the column
\* decreases by 1; from column 0 on a row r > 0 the caret goes to the end of
\* the previous line, (r-1, length of line r-1); from (0,0) the caret does
\* not move.
C25_MoveLeftIterations ==
    [][ (SrcCalls({"arrow-left"}) /\ SrcIsCount')
        => /\ ~srcRun'.lastCall.threw
           /\ srcEditor'.codeLines = srcEditor.codeLines
           /\ SrcCaret' = MoveLeft(srcEditor.codeLines, SrcCaret, SrcCount')
      ]_vars

\* One iteration of move-right as the three cases give it, judged against
\* the line the caret is on, and n of them.
MoveRightOnce(lines, pos) ==
    IF pos.col < Len(lines[pos.row + 1])
    THEN [row |-> pos.row, col |-> pos.col + 1]
    ELSE IF pos.row < Len(lines) - 1
    THEN [row |-> pos.row + 1, col |-> 0]
    ELSE pos

RECURSIVE MoveRight(_, _, _)
MoveRight(lines, pos, n) ==
    IF n <= 0 THEN pos ELSE MoveRight(lines, MoveRightOnce(lines, pos), n - 1)

\* C26: in each iteration of move-right, judged against the line the caret
\* is on at that iteration, from a column < that line's length the column
\* increases by 1; from end-of-line on a row that is not the last the caret
\* goes to (row+1, 0); from the end of the last line the caret does not
\* move.  So the caret can reach end-of-line and never passes it, also when
\* one action with count n crosses onto a line of a different length.
C26_MoveRightIterations ==
    [][ (SrcCalls({"arrow-right"}) /\ SrcIsCount')
        => /\ ~srcRun'.lastCall.threw
           /\ srcEditor'.codeLines = srcEditor.codeLines
           /\ SrcCaret' = MoveRight(srcEditor.codeLines, SrcCaret, SrcCount')
      ]_vars

\* ------------------------------------------------ claims on caret movement

MoveUpOntoShorterLine ==
    /\ Calls({"editor-arrow-up"})
    /\ lastCall'.arg.value = <<"1">>
    /\ caretRow > 0
    /\ Len(codeLines[caretRow]) < Len(codeLines[caretRow + 1])

MovementNames ==
    { "editor-arrow-left", "editor-arrow-right", "editor-arrow-up",
      "editor-arrow-down", "editor-command-left", "editor-command-right" }

\* C29: after any move-left, move-right, move-up, move-down, line-start or
\* line-end action, with any repeat count and also when the caret did not
\* move, no selection is active (the anchor is the sentinel) and the current
\* highlighted text is empty.
C29_MovementClearsSelection ==
    [][ Calls(MovementNames)
        => /\ ~lastCall'.threw
           /\ highlightStartRow' = -1
           /\ highlightStartCol' = -1
           /\ currentlyHighlightedCode' = <<>>
           /\ highlightStartPositionHistory'[Len(highlightStartPositionHistory')]
                  = [row |-> -1, col |-> -1]
           /\ highlightHistory'[Len(highlightHistory')] = << <<>> >>
      ]_vars

\* A line-start action has been applied with a selection active and the
\* caret in column 0: the caret did not move.
C29_Witness ==
    /\ lastCall.op = "applyAction"
    /\ lastCall.arg.name = "editor-command-left"
    /\ ~lastCall.threw
    /\ PrevAnchor.row # -1
    /\ PrevCaret = [row |-> caretRow, col |-> caretCol]
    /\ highlightStartRow = -1

\* C30: line-start sets the caret column to 0 and line-end sets it to the
\* length of the current line, both leaving the row and the buffer
\* unchanged; applying either with any count n >= 1, or twice in a row, gives
\* the same state as applying it once (the state after is the same function
\* of the buffer and the row for every count and every column before).
C30_LineStartLineEnd ==
    [][ (/\ Calls({"editor-command-left", "editor-command-right"})
         /\ IsCount(lastCall'.arg.value)
         /\ CountOf(lastCall'.arg.value) >= 1)
        => /\ ~lastCall'.threw
           /\ caretCol' = IF lastCall'.arg.name = "editor-command-left" THEN 0
                          ELSE Len(codeLines[caretRow + 1])
           /\ caretRow' = caretRow
           /\ codeLines' = codeLines
      ]_vars

\* ------------------------------------------------- claims on the selection

\* The kinds that extend the selection.
ExtendNames ==
    { "editor-shift+arrow-left", "editor-shift+arrow-right",
      "editor-shift+arrow-up", "editor-shift+arrow-down" }

\* C31: an extend-left/right/up/down action applied while no selection is
\* active sets the anchor to the caret position held before the move; applied
\* while a selection is active it leaves the anchor unchanged; in both cases
\* a selection is active afterwards, and so it stays active across any
\* further extend-* actions.
C31_ExtendSetsAnchorOnce ==
    [][ Calls(ExtendNames)
        => /\ ~lastCall'.threw
           /\ ~SelectionActive =>
                  /\ highlightStartRow' = caretRow
                  /\ highlightStartCol' = caretCol
           /\ SelectionActive =>
                  /\ highlightStartRow' = highlightStartRow
                  /\ highlightStartCol' = highlightStartCol
           /\ SelectionActive'
           /\ highlightStartPositionHistory'[Len(highlightStartPositionHistory')]
                  = [row |-> highlightStartRow', col |-> highlightStartCol']
      ]_vars

\* Three extend actions in a row: the first set the anchor, the later ones
\* moved the caret away from it and kept it.
C31_Witness ==
    /\ Len(actionsApplied) = 4
    /\ \A i \in 2..4 : actionsApplied[i].name \in ExtendNames
    /\ highlightStartPositionHistory[1].row = -1
    /\ highlightStartPositionHistory[2] = caretPositionHistory[1]
    /\ highlightStartPositionHistory[4] = highlightStartPositionHistory[2]
    /\ caretPositionHistory[3] # caretPositionHistory[2]
    /\ caretPositionHistory[4].row # caretPositionHistory[3].row

\* The part of the joined buffer between the anchor and the caret, ordered by
\* row then column, both being positions of the buffer.
SelectedText == SubSeq(Join(codeLines), SelStartOffset + 1, SelEndOffset)

\* The slice of a line between two columns, the columns brought into the
\* line.
LineSlice(line, from, to) ==
    SubSeq(line, Clamp(from, 0, Len(line)) + 1, Clamp(to, 0, Len(line)))

\* The text between two positions, the first not after the second: on one
\* line the slice between the columns, across lines the tail of the first
\* line, the interior lines and the head of the last line, joined.
RangeText(lines, first, last) ==
    IF first.row = last.row
    THEN LineSlice(lines[first.row + 1], first.col, last.col)
    ELSE Join([i \in 1..(last.row - first.row + 1) |->
                  IF i = 1
                  THEN LineSlice(lines[first.row + 1], first.col,
                                 Len(lines[first.row + 1]))
                  ELSE IF i = last.row - first.row + 1
                  THEN LineSlice(lines[last.row + 1], 0, last.col)
                  ELSE lines[first.row + i]])

SelFirst ==
    IF AnchorFirst THEN [row |-> highlightStartRow, col |-> highlightStartCol]
    ELSE [row |-> caretRow, col |-> caretCol]

SelLast ==
    IF AnchorFirst THEN [row |-> caretRow, col |-> caretCol]
    ELSE [row |-> highlightStartRow, col |-> highlightStartCol]

ExtendReturned ==
    /\ lastCall.op = "applyAction"
    /\ lastCall.arg.name \in ExtendNames
    /\ ~lastCall.threw

\* C32: right after every extend-* action the current highlighted text
\* equals the part of the joined buffer lying between the anchor and the
\* caret ordered by row then column: on one line the slice between the two
\* columns, across lines the tail of the first line, the full interior lines
\* and the head of the last line joined by line breaks; the result is the
\* same for a forward and for a backward selection over the same range.
C32_HighlightedTextIsTheRange ==
    ExtendReturned =>
        /\ currentlyHighlightedCode = RangeText(codeLines, SelFirst, SelLast)
        /\ SelectionInBuffer => currentlyHighlightedCode = SelectedText
        /\ highlightHistory[Len(highlightHistory)] =
               IF currentlyHighlightedCode = <<>> THEN << <<>> >>
               ELSE <<currentlyHighlightedCode>>

\* An extend action has left a backward selection over two lines, with
\* text selected on both.
C32_Witness ==
    /\ ExtendReturned
    /\ SelectionInBuffer
    /\ caretRow < highlightStartRow
    /\ caretCol < Len(codeLines[caretRow + 1])
    /\ highlightStartCol > 0
    /\ Len(currentlyHighlightedCode) >= 3

\* One iteration of extend-up (dir = -1) or extend-down (dir = 1) as the claim
\* gives it, and n of them.
ExtendVerticalOnce(lines, pos, dir) ==
    IF (dir = -1 /\ pos.row = 0) \/ (dir = 1 /\ pos.row = Len(lines) - 1)
    THEN pos
    ELSE [row |-> pos.row + dir,
          col |-> IF pos.col < Len(lines[pos.row + dir + 1]) THEN pos.col
                  ELSE Len(lines[pos.row + dir + 1])]

RECURSIVE ExtendVertical(_, _, _, _)
ExtendVertical(lines, pos, dir, n) ==
    IF n <= 0 THEN pos
    ELSE ExtendVertical(lines, ExtendVerticalOnce(lines, pos, dir), dir, n - 1)

Tabs(n) == [i \in 1..n |-> "\t"]

\* C34: insert-tab with count n inserts exactly n tab characters at the
\* caret and advances the caret column by n; when a selection is active it
\* deletes no text and leaves the selection anchor unchanged (the selection
\* stays active).
C34_TabInsertsTabs ==
    [][ (SrcCalls({"tab"}) /\ SrcIsCount' /\ SrcCount' >= 0)
        => /\ ~srcRun'.lastCall.threw
           /\ Join(srcEditor'.codeLines) =
                  InsertAt(Join(srcEditor.codeLines),
                           OffsetOf(srcEditor.codeLines, srcEditor.caretRow,
                                    Clamp(srcEditor.caretColumn, 0,
                                          Len(srcEditor.codeLines[srcEditor.caretRow + 1]))),
                           Tabs(SrcCount'))
           /\ Len(srcEditor'.codeLines) = Len(srcEditor.codeLines)
           /\ srcEditor'.caretRow = srcEditor.caretRow
           /\ srcEditor'.caretColumn = srcEditor.caretColumn + SrcCount'
           /\ srcEditor'.highlightStartRow = srcEditor.highlightStartRow
           /\ srcEditor'.highlightStartColumn = srcEditor.highlightStartColumn
      ]_vars

\* Two tabs have been inserted with text selected: the anchor of the
\* selection is where it was.
C34_Witness ==
    /\ srcRun.lastCall.op = "applyAction"
    /\ srcRun.lastCall.arg = [name |-> "tab", value |-> <<"2">>]
    /\ ~srcRun.lastCall.threw
    /\ Len(srcEditor.highlightStartPositionHistory) >= 3
    /\ srcEditor.highlightStartPositionHistory[
           Len(srcEditor.highlightStartPositionHistory) - 1].row # -1
    /\ srcEditor.highlightHistory[Len(srcEditor.highlightHistory) - 1] # << <<>> >>
    /\ srcEditor.highlightStartRow # -1

\* ---------------------------------------------- claims on flags and frames

\* This step is a call of applyAction.
CallsApplyAction == calls' = calls + 1 /\ lastCall'.op = "applyAction"

\* C35: the context-menu flag is false initially, true after show-menu and
\* false after hide-menu whatever the payload, and unchanged by every other
\* action; show-menu and hide-menu leave the buffer, the caret and the
\* selection anchor unchanged.
C35_ContextMenuFlag ==
    /\ [](calls = 0 => ~isEditorContextMenuOpen)
    /\ [][ CallsApplyAction =>
             /\ lastCall'.arg.name = "editor-show-context-menu" =>
                    isEditorContextMenuOpen'
             /\ lastCall'.arg.name = "editor-hide-context-menu" =>
                    ~isEditorContextMenuOpen'
             /\ lastCall'.arg.name \notin
                    {"editor-show-context-menu", "editor-hide-context-menu"} =>
                    isEditorContextMenuOpen' = isEditorContextMenuOpen
             /\ lastCall'.arg.name \in
                    {"editor-show-context-menu", "editor-hide-context-menu"} =>
                    /\ ~lastCall'.threw
                    /\ codeLines' = codeLines
                    /\ caretRow' = caretRow
                    /\ caretCol' = caretCol
                    /\ highlightStartRow' = highlightStartRow
                    /\ highlightStartCol' = highlightStartCol
         ]_vars

\* The menu was shown and has been hidden by an action whose payload is no
\* number.
C35_Witness ==
    /\ Len(actionsApplied) = 3
    /\ actionsApplied[2].name = "editor-show-context-menu"
    /\ actionsApplied[3] = [name |-> "editor-hide-context-menu", value |-> <<"x">>]
    /\ ~isEditorContextMenuOpen

\* C36: for every repeatable action kind and every n >= 0, starting from any
\* reachable state with no selection active, applying the action once with
\* repeat count n leaves the same buffer, caret and selection anchor as
\* applying it n times in a row with repeat count 1.
C36_CountIsRepetition ==
    [][ (/\ Calls(RepeatableNames)
         /\ IsCount(lastCall'.arg.value)
         /\ CountOf(lastCall'.arg.value) >= 0
         /\ ~SelectionActive)
        => LET once == [name |-> lastCall'.arg.name, value |-> <<"1">>]
               ref == ApplyTimes(Fields, once, CountOf(lastCall'.arg.value))
           IN  /\ lastCall'.threw = ref.threw
               /\ codeLines' = ref.lines
               /\ caretRow' = ref.row
               /\ caretCol' = ref.col
               /\ highlightStartRow' = ref.hRow
               /\ highlightStartCol' = ref.hCol
      ]_vars

\* C37: whenever a selection is active, the anchor is a valid buffer
\* position: 0 <= anchor.row < buffer.length and 0 <= anchor.col <= length
\* of the line at anchor.row; this holds after any sequence of actions,
\* including buffer edits that keep the selection (insert-tab) and actions
\* that record nothing but a flag.
C37_AnchorInBuffer ==
    SelectionActive => InBuffer(codeLines, highlightStartRow, highlightStartCol)

\* The text between two positions, whichever comes first.
TextBetween(lines, p, q) ==
    IF p.row < q.row \/ (p.row = q.row /\ p.col <= q.col)
    THEN RangeText(lines, p, q) ELSE RangeText(lines, q, p)

\* The highlighted text that agrees with entry i of the anchor, caret and
\* buffer logs of the editor of src/VirtualEditor.ts.
SrcEntryText(i) ==
    LET anchor == srcEditor.highlightStartPositionHistory[i]
        caret == srcEditor.caretPositionHistory[i]
    IN  IF anchor.row = -1 THEN <<>>
        ELSE TextBetween(srcEditor.codeLinesHistory[i],
                         [row |-> anchor.row, col |-> anchor.column],
                         [row |-> caret.row, col |-> caret.column])

\* The kinds that do not touch the selection.
SrcUntouchingNames == SpeechKinds \cup UnknownNames

\* C38: in every history entry the highlighted-text snapshot agrees with the
\* same entry's anchor, caret and buffer snapshots: it is empty when the
\* anchor is the no-selection sentinel, and otherwise equals the text between
\* anchor and caret in that buffer snapshot; in particular an action that
\* does not touch the selection (a speech action, an unrecognized kind)
\* records the same highlighted text as the entry before it.
C38_HighlightEntriesAgree ==
    /\ [](\A i \in 1..Len(srcEditor.highlightHistory) :
              Join(srcEditor.highlightHistory[i]) = SrcEntryText(i))
    /\ [][ (SrcCalls(SrcUntouchingNames) /\ ~srcRun'.lastCall.threw)
           => srcEditor'.highlightHistory[Len(srcEditor'.highlightHistory)] =
                  srcEditor.highlightHistory[Len(srcEditor.highlightHistory)]
         ]_vars

\* The kinds of the two editors that are not insert-text, newline,
\* delete-backward, insert-space or insert-tab.
NonEditingNames ==
    MovementNames \cup ExtendNames
        \cup {"editor-save", "editor-show-context-menu", "editor-hide-context-menu"}

SrcNonEditingNames ==
    { "arrow-left", "arrow-right", "arrow-up", "arrow-down", "command-left",
      "command-right", "shift+arrow-left", "shift+arrow-right" }
        \cup SpeechKinds

\* C39: only insert-text, newline, delete-backward, insert-space and
\* insert-tab can change the line buffer: every move-*, line-start,
\* line-end, extend-*, mark-saved, show/hide-menu and speech action leaves
\* every line of the buffer, and the number of lines, unchanged.
C39_OnlyEditsChangeTheBuffer ==
    [][ /\ Calls(NonEditingNames) =>
               /\ ~lastCall'.threw
               /\ codeLines' = codeLines
               /\ lastCall'.value = Join(codeLines)
        /\ SrcCalls(SrcNonEditingNames) =>
               /\ ~srcRun'.lastCall.threw
               /\ srcEditor'.codeLines = srcEditor.codeLines
               /\ srcRun'.lastCall.value = Join(srcEditor.codeLines)
      ]_vars

\* An extend action has moved the caret of one editor and a speech action
\* has been applied to the other, on a buffer of two lines with text.
C39_Witness ==
    /\ lastCall.op = "applyAction"
    /\ lastCall.arg.name \in ExtendNames
    /\ caretCol > 0
    /\ srcRun.lastCall.op = "applyAction"
    /\ srcRun.lastCall.arg.name \in SpeechKinds
    /\ Len(srcEditor.codeLines) = 2
    /\ srcEditor.codeLines[1] # <<>>

\* ----------------------------------------------- the flat-string editor

\* The kinds of the refinement: insert-text, newline, insert-space and
\* delete-backward.
FlatNames == {"editor-type", "editor-enter", "editor-space", "editor-backspace"}

\* What the reference editor inserts at the offset for an action, and how
\* many characters it deletes before the offset.
FlatPayload(action) ==
    IF action.name = "editor-type" THEN action.value
    ELSE IF action.name = "editor-enter" THEN Newlines(CountOf(action.value))
    ELSE IF action.name = "editor-space" THEN Spaces(CountOf(action.value))
    ELSE <<>>

FlatDeleted(action, offset) ==
    IF action.name = "editor-backspace"
    THEN Min(CountOf(action.value), offset) ELSE 0

\* The reference editor over one string: text and offset after an action.
FlatText(text, offset, action) ==
    SubSeq(text, 1, offset - FlatDeleted(action, offset))
        \o FlatPayload(action)
        \o SubSeq(text, offset + 1, Len(text))

FlatOffset(offset, action) ==
    offset - FlatDeleted(action, offset) + Len(FlatPayload(action))

\* C40: the line buffer with its caret refines a flat-string editor: for any
\* sequence of insert-text, newline, insert-space and delete-backward actions
\* applied from a state with no selection and a caret inside the buffer,
\* after every step the joined text and the caret's character offset in it
\* equal those of a reference editor over one string that inserts the
\* payload, n line-break characters or n spaces at the offset and deletes
\* min(n, offset) characters before the offset (and the state after the step
\* is again one with no selection and a caret inside the buffer).
C40_RefinesFlatString ==
    [][ (/\ Calls(FlatNames)
         /\ ~SelectionActive
         /\ InBuffer(codeLines, caretRow, caretCol)
         /\ lastCall'.arg.name # "editor-type" =>
                (IsCount(lastCall'.arg.value) /\ CountOf(lastCall'.arg.value) >= 0))
        => LET text == Join(codeLines)
               offset == OffsetOf(codeLines, caretRow, caretCol)
           IN  /\ ~lastCall'.threw
               /\ Join(codeLines') = FlatText(text, offset, lastCall'.arg)
               /\ InBuffer(codeLines', caretRow', caretCol')
               /\ OffsetOf(codeLines', caretRow', caretCol') =
                      FlatOffset(offset, lastCall'.arg)
               /\ ~SelectionActive'
      ]_vars

\* Three actions of the refinement in a row from the constructed state, the
\* last a delete-backward of two characters that took a line break away.
C40_Witness ==
    /\ Len(actionsApplied) = 4
    /\ \A i \in 2..4 : actionsApplied[i].name \in FlatNames
    /\ actionsApplied[4] = [name |-> "editor-backspace", value |-> <<"2">>]
    /\ Len(codeLines) = Len(PrevLines) - 1
    /\ Len(Join(codeLines)) = Len(Join(PrevLines)) - 2
    /\ actionsApplied[2].name # actionsApplied[3].name

====
